---- MODULE Spec2Model ----
(***************************************************************************)
(* A model of the CHIP-8 emulator (src/src/main.rs) and of its assembler   *)
(* (src/src/assembler.rs).                                                 *)
(*                                                                         *)
(* The machine is the record chip8, one field per field of struct Chip8,   *)
(* plus `panicked`, which records that the process has been aborted by a   *)
(* Rust panic (an index out of bounds, an arithmetic overflow in a build   *)
(* with overflow checks, an unwrap of an Err).  Every operation of the     *)
(* emulator is an operator from a machine record to a machine record, so   *)
(* that a handler is the composition of the calls it makes.                *)
(***************************************************************************)
EXTENDS Integers, Sequences, FiniteSets, TLC

VARIABLES
    chip8,            \* the struct Chip8 built by model()
    loop_i,           \* update(): the loop variable _i; LOOP_CYCLES when update is not running
    overflow_checks,  \* the build: TRUE when integer overflow panics (debug), FALSE when it wraps
    audio_thread,     \* the thread spawned by model(): "running" or "dead"
    program,          \* what model() loaded: the assembly source or the ROM bytes
    cycles_run        \* number of calls of run_next_cpu_cycle so far (history, saturating)

vars == <<chip8, loop_i, overflow_checks, audio_thread, program, cycles_run>>

(***************************************************************************)
(* Program constants                                                       *)
(***************************************************************************)
WIDTH == 64
HEIGHT == 32
MEMORY_SIZE == 4096
LOOP_CYCLES == 8
PROGRAM_BASE == 512
U16_MAX == 65535

(***************************************************************************)
(* Bounds of the model                                                     *)
(***************************************************************************)
\* cycles_run counts up to MaxCycles and stays there
MaxCycles == 3
\* the keys of the keyboard the user presses and releases: the first NumKeys of KeyNames
NumKeys == 3
\* the bytes rand::random::<u8>() returns: 0..MaxRandom, and 255
MaxRandom == 1
\* the registers the arithmetic programs use: V0..V(MaxAluReg), and VF
MaxAluReg == 1
\* the register values the arithmetic programs load: 0..MaxAluVal, and 127, 128, 255
MaxAluVal == 2
\* the sprite heights the drawing programs use: 0..MaxSpriteRows, and 15
MaxSpriteRows == 1
\* the last register of the block transfers: 0..MaxStoreReg, and 15
MaxStoreReg == 1
\* the registers the assembly lines name: V0..V(MaxAsmReg), and VF
MaxAsmReg == 1
\* the values the timer programs load: 0..MaxTimerVal, and 60
MaxTimerVal == 2

(***************************************************************************)
(* Integer helpers: the bit operations of u8 / u16                         *)
(***************************************************************************)
Pow2(i) == CASE i = 0 -> 1 [] i = 1 -> 2 [] i = 2 -> 4 [] i = 3 -> 8
             [] i = 4 -> 16 [] i = 5 -> 32 [] i = 6 -> 64 [] i = 7 -> 128
             [] OTHER -> 256

Bit(v, i) == (v \div Pow2(i)) % 2

BitSum(f) == f[0] + 2 * f[1] + 4 * f[2] + 8 * f[3]
             + 16 * f[4] + 32 * f[5] + 64 * f[6] + 128 * f[7]

And8(a, b) == BitSum([i \in 0..7 |-> Bit(a, i) * Bit(b, i)])

Or8(a, b) == BitSum([i \in 0..7 |-> IF Bit(a, i) + Bit(b, i) > 0 THEN 1 ELSE 0])

Xor8(a, b) == BitSum([i \in 0..7 |-> (Bit(a, i) + Bit(b, i)) % 2])

\* u8::checked_sub followed by `None => 0`
CheckedSubOrZero(a, b) == IF a >= b THEN a - b ELSE 0

\* Option<u8>
None == <<>>
Some(v) == <<v>>

(***************************************************************************)
(* Machine state                                                           *)
(***************************************************************************)
Panic(c) == [c EXCEPT !.panicked = TRUE]

DigitSprites ==
    <<240, 144, 144, 144, 240, 32, 96, 32, 32, 112,
      240, 16, 240, 128, 240, 240, 16, 240, 16, 240,
      144, 144, 240, 16, 16, 240, 128, 240, 16, 240,
      240, 128, 240, 144, 240, 240, 16, 32, 64, 64,
      240, 144, 240, 144, 240, 240, 144, 240, 16, 240,
      240, 144, 240, 144, 144, 224, 144, 224, 144, 224,
      240, 128, 128, 128, 240, 224, 144, 144, 144, 224,
      240, 128, 240, 128, 240, 240, 128, 240, 128, 128>>

\* model(): memory holds the digit sprites from 0 and the instructions from 0x200
LoadMemory(instructions) ==
    [a \in 0..(MEMORY_SIZE - 1) |->
        IF a < Len(DigitSprites) THEN DigitSprites[a + 1]
        ELSE IF a >= PROGRAM_BASE /\ a - PROGRAM_BASE < Len(instructions)
             THEN instructions[a - PROGRAM_BASE + 1]
             ELSE 0]

\* model(): the struct literal; the load loop panics when the program does not fit
NewChip8(instructions) ==
    [display |-> [p \in 0..(WIDTH * HEIGHT - 1) |-> 0],
     memory |-> LoadMemory(instructions),
     keys |-> [k \in 0..15 |-> FALSE],
     registers |-> [r \in 0..15 |-> 0],
     register_i |-> 0,
     timer_sound |-> 0,
     timer_delay |-> 0,
     pc |-> PROGRAM_BASE,
     sp |-> 0,
     stack |-> [s \in 0..15 |-> 0],
     needs_clear |-> FALSE,
     hold_for_key |-> None,
     audio_control_channel |-> <<>>,
     audio_is_playing |-> FALSE,
     panicked |-> PROGRAM_BASE + Len(instructions) > MEMORY_SIZE]

(***************************************************************************)
(* run_next_cpu_cycle: one operator per opcode                             *)
(***************************************************************************)
\* 00E0 - CLS
CLS_00E0(c) == [c EXCEPT !.needs_clear = TRUE]

\* sp is decremented before the stack is read
RET_00EE_pops_first(c) ==
    IF c.sp = 0 \/ c.sp > 16 THEN Panic(c)
    ELSE [c EXCEPT !.pc = c.stack[c.sp - 1], !.sp = c.sp - 1]

\* 00EE - RET
RET_00EE(c) ==
    IF c.sp > 15 THEN Panic(c)
    ELSE LET c1 == [c EXCEPT !.pc = c.stack[c.sp]]
         IN  IF c.sp = 0
             THEN IF overflow_checks THEN Panic(c1) ELSE [c1 EXCEPT !.sp = U16_MAX]
             ELSE [c1 EXCEPT !.sp = c.sp - 1]

\* 1nnn - JP addr
JP_1nnn(c, nnn) == [c EXCEPT !.pc = nnn]

\* 2nnn - CALL addr
CALL_2nnn(c, nnn) ==
    IF c.sp = U16_MAX /\ overflow_checks THEN Panic(c)
    ELSE LET sp1 == (c.sp + 1) % (U16_MAX + 1)
         IN  IF sp1 > 15 THEN Panic([c EXCEPT !.sp = sp1])
             ELSE [c EXCEPT !.sp = sp1, !.stack[sp1] = c.pc, !.pc = nnn]

\* 3xkk - SE Vx, byte
SE_3xkk(c, x, kk) == IF c.registers[x] = kk THEN [c EXCEPT !.pc = c.pc + 2] ELSE c

\* 4xkk - SNE Vx, byte
SNE_4xkk(c, x, kk) == IF c.registers[x] # kk THEN [c EXCEPT !.pc = c.pc + 2] ELSE c

\* 5xy0 - SE Vx, Vy
SE_5xy0(c, x, y) ==
    IF c.registers[x] = c.registers[y] THEN [c EXCEPT !.pc = c.pc + 2] ELSE c

\* 6xkk - LD Vx, byte
LD_6xkk(c, x, kk) == [c EXCEPT !.registers[x] = kk]

\* 7xkk - ADD Vx, byte
ADD_7xkk(c, x, kk) ==
    LET result == c.registers[x] + kk
    IN  [c EXCEPT !.registers[x] = result % 256]

\* 8xy0 - LD Vx, Vy
LD_8xy0(c, x, y) == [c EXCEPT !.registers[x] = c.registers[y]]

\* 8xy1 - OR Vx, Vy
OR_8xy1(c, x, y) == [c EXCEPT !.registers[x] = Or8(c.registers[x], c.registers[y])]

\* 8xy2 - AND Vx, Vy
AND_8xy2(c, x, y) == [c EXCEPT !.registers[x] = And8(c.registers[x], c.registers[y])]

\* 8xy3 - XOR Vx, Vy
XOR_8xy3(c, x, y) == [c EXCEPT !.registers[x] = Xor8(c.registers[x], c.registers[y])]

\* 8xy4 - ADD Vx, Vy, with the carry written before the sum (the order of 8xy5)
ADD_8xy4_flag_first(c, x, y) ==
    LET result == c.registers[x] + c.registers[y]
        r1 == [c.registers EXCEPT ![15] = IF result > 255 THEN 1 ELSE 0]
        r2 == [r1 EXCEPT ![x] = result % 256]
    IN  [c EXCEPT !.registers = r2]

\* 8xy4 - ADD Vx, Vy
ADD_8xy4(c, x, y) ==
    LET result == c.registers[x] + c.registers[y]
        r1 == [c.registers EXCEPT ![x] = result % 256]
        r2 == [r1 EXCEPT ![15] = IF result > 255 THEN 1 ELSE 0]
    IN  [c EXCEPT !.registers = r2]

\* 8xy5 - SUB Vx, Vy: the flag is stored first, the subtraction reads the registers after it
SUB_8xy5(c, x, y) ==
    LET r1 == [c.registers EXCEPT ![15] = IF c.registers[x] > c.registers[y] THEN 1 ELSE 0]
        r2 == [r1 EXCEPT ![x] = CheckedSubOrZero(r1[x], r1[y])]
    IN  [c EXCEPT !.registers = r2]

\* 8xy6 - SHR Vx {, Vy}
SHR_8xy6(c, x) ==
    LET r1 == [c.registers EXCEPT ![15] = And8(c.registers[x], 1)]
        r2 == [r1 EXCEPT ![x] = r1[x] \div 2]
    IN  [c EXCEPT !.registers = r2]

\* 8xy7 - SUBN Vx, Vy: the flag is stored first, the subtraction reads the registers after it
SUBN_8xy7(c, x, y) ==
    LET r1 == [c.registers EXCEPT ![15] = IF c.registers[y] > c.registers[x] THEN 1 ELSE 0]
        r2 == [r1 EXCEPT ![x] = CheckedSubOrZero(r1[y], r1[x])]
    IN  [c EXCEPT !.registers = r2]

\* 8xyE - SHL Vx {, Vy}: the source divides by 2
SHL_8xyE(c, x) ==
    LET r1 == [c.registers EXCEPT ![15] = IF And8(c.registers[x], 128) = 128 THEN 1 ELSE 0]
        r2 == [r1 EXCEPT ![x] = r1[x] \div 2]
    IN  [c EXCEPT !.registers = r2]

\* 9xy0 - SNE Vx, Vy
SNE_9xy0(c, x, y) ==
    IF c.registers[x] # c.registers[y] THEN [c EXCEPT !.pc = c.pc + 2] ELSE c

\* Annn - LD I, addr
LD_Annn(c, nnn) == [c EXCEPT !.register_i = nnn]

\* Bnnn - JP V0, addr
JP_Bnnn(c, nnn) == [c EXCEPT !.pc = nnn + c.registers[0]]

\* Cxkk - RND Vx, byte; rnd is the byte rand::random::<u8>() returns
RND_Cxkk(c, x, kk, rnd) == [c EXCEPT !.registers[x] = And8(rnd, kk)]

(***************************************************************************)
(* Dxyn - DRW Vx, Vy, nibble                                               *)
(***************************************************************************)
\* pos_x without the wrap at the right edge
PosX_no_wrap(start_x, column) == (start_x % WIDTH) + column

\* let pos_x = ((start_x % WIDTH) + column) % WIDTH
PosX(start_x, column) == ((start_x % WIDTH) + column) % WIDTH

\* let pos_y = ((start_y % HEIGHT) + line) % HEIGHT
PosY(start_y, line) == ((start_y % HEIGHT) + line) % HEIGHT

\* let px_index = (pos_y as usize) * 64 + (pos_x as usize)
PxIndex(start_x, start_y, line, column) ==
    PosY(start_y, line) * 64 + PosX(start_x, column)

\* (sprite_line << column) & 0b10000000 == 0b10000000, the shift in u8
SpriteColumnPx(sprite_line, column) ==
    IF And8((sprite_line * Pow2(column)) % 256, 128) = 128 THEN 1 ELSE 0

\* the body of `for column in 0..8`
DrawPixel(c, start_x, start_y, sprite_line, line, column) ==
    LET px_index == PxIndex(start_x, start_y, line, column)
    IN  IF px_index >= WIDTH * HEIGHT THEN Panic(c)
        ELSE LET old_px == c.display[px_index]
                 new_px == Xor8(old_px, SpriteColumnPx(sprite_line, column))
                 c1 == [c EXCEPT !.display[px_index] = new_px]
             IN  IF old_px = 1 /\ new_px = 0
                 THEN [c1 EXCEPT !.registers[15] = 1]
                 ELSE c1

RECURSIVE DrawColumns(_, _, _, _, _, _)
\* for column in 0..8
DrawColumns(c, start_x, start_y, sprite_line, line, column) ==
    IF column >= 8 \/ c.panicked THEN c
    ELSE DrawColumns(DrawPixel(c, start_x, start_y, sprite_line, line, column),
                     start_x, start_y, sprite_line, line, column + 1)

RECURSIVE DrawLines(_, _, _, _, _)
\* for line in 0..n: the sprite row is read at register_i + line (u16 addition)
DrawLines(c, start_x, start_y, n, line) ==
    IF line >= n \/ c.panicked THEN c
    ELSE LET sum == c.register_i + line
             addr == sum % (U16_MAX + 1)
         IN  IF (sum > U16_MAX /\ overflow_checks) \/ addr >= MEMORY_SIZE
             THEN Panic(c)
             ELSE DrawLines(DrawColumns(c, start_x, start_y, c.memory[addr], line, 0),
                            start_x, start_y, n, line + 1)

\* Dxyn - DRW Vx, Vy, nibble
DRW_Dxyn(c, x, y, n) == DrawLines(c, c.registers[x], c.registers[y], n, 0)

(***************************************************************************)
(* The 0xE and 0xF families                                                *)
(***************************************************************************)
\* Ex9E - SKP Vx
SKP_Ex9E(c, x) ==
    IF c.registers[x] > 15 THEN Panic(c)
    ELSE IF c.keys[c.registers[x]] THEN [c EXCEPT !.pc = c.pc + 2] ELSE c

\* ExA1 - SKNP Vx
SKNP_ExA1(c, x) ==
    IF c.registers[x] > 15 THEN Panic(c)
    ELSE IF ~c.keys[c.registers[x]] THEN [c EXCEPT !.pc = c.pc + 2] ELSE c

\* Fx07 - LD Vx, DT
LD_Fx07(c, x) == [c EXCEPT !.registers[x] = c.timer_delay]

\* Fx0A - LD Vx, K
LD_Fx0A(c, x) == [c EXCEPT !.hold_for_key = Some(x)]

\* Fx15 - LD DT, Vx
LD_Fx15(c, x) == [c EXCEPT !.timer_delay = c.registers[x]]

\* Fx18 - LD ST, Vx
LD_Fx18(c, x) == [c EXCEPT !.timer_sound = c.registers[x]]

\* Fx1E - ADD I, Vx (u16 addition)
ADD_Fx1E(c, x) ==
    LET sum == c.register_i + c.registers[x]
    IN  IF sum > U16_MAX /\ overflow_checks THEN Panic(c)
        ELSE [c EXCEPT !.register_i = sum % (U16_MAX + 1)]

\* Fx29 - LD F, Vx (the multiplication is done in u8)
LD_Fx29(c, x) ==
    LET product == c.registers[x] * 5
    IN  IF product > 255 /\ overflow_checks THEN Panic(c)
        ELSE [c EXCEPT !.register_i = product % 256]

RECURSIVE StoreBcd(_, _, _)
\* Fx33: the three stores, at register_i + k (u16 addition) for k = 0, 1, 2
StoreBcd(c, digits, k) ==
    IF k >= 3 \/ c.panicked THEN c
    ELSE LET sum == c.register_i + k
             addr == sum % (U16_MAX + 1)
         IN  IF (sum > U16_MAX /\ overflow_checks) \/ addr >= MEMORY_SIZE
             THEN Panic(c)
             ELSE StoreBcd([c EXCEPT !.memory[addr] = digits[k + 1]], digits, k + 1)

\* Fx33 - LD B, Vx
LD_Fx33(c, x) ==
    LET v == c.registers[x]
    IN  StoreBcd(c, <<v \div 100, (v % 100) \div 10, v % 10>>, 0)

RECURSIVE StoreRegisters(_, _, _)
\* Fx55: for i in 0..=x, at (register_i as usize) + i
StoreRegisters(c, x, i) ==
    IF i > x \/ c.panicked THEN c
    ELSE IF c.register_i + i >= MEMORY_SIZE THEN Panic(c)
    ELSE StoreRegisters([c EXCEPT !.memory[c.register_i + i] = c.registers[i]], x, i + 1)

\* Fx55 - LD [I], Vx, with I left behind the last cell written
LD_Fx55_advances_i(c, x) ==
    [StoreRegisters(c, x, 0) EXCEPT !.register_i = c.register_i + x + 1]

\* Fx55 - LD [I], Vx
LD_Fx55(c, x) == StoreRegisters(c, x, 0)

RECURSIVE ReadRegisters(_, _, _)
\* Fx65: for i in 0..=x, from (register_i as usize) + i
ReadRegisters(c, x, i) ==
    IF i > x \/ c.panicked THEN c
    ELSE IF c.register_i + i >= MEMORY_SIZE THEN Panic(c)
    ELSE ReadRegisters([c EXCEPT !.registers[i] = c.memory[c.register_i + i]], x, i + 1)

\* Fx65 - LD Vx, [I]
LD_Fx65(c, x) == ReadRegisters(c, x, 0)

(***************************************************************************)
(* run_next_cpu_cycle: fetch, decode, dispatch                             *)
(***************************************************************************)
\* the opcode at pc, big-endian
OpcodeAt(c) == c.memory[c.pc] * 256 + c.memory[c.pc + 1]

\* 0nnn - SYS addr (ignored)
SYS_0nnn(c) == c

\* an opcode without arm, taken as fatal
Undefined_fatal(c) == Panic(c)

\* the arms `_ => {}` of the nested matches
Undefined(c) == c

\* the match on opcode & 0xF000 and the nested matches; c has pc already advanced
Dispatch(c, opcode, rnd) ==
    LET nnn == opcode % 4096
        n == opcode % 16
        x == (opcode \div 256) % 16
        y == (opcode % 256) \div 16
        kk == opcode % 256
        family == opcode \div 4096
    IN  CASE family = 0 ->
                (CASE opcode = 224 -> CLS_00E0(c)
                   [] opcode = 238 -> RET_00EE(c)
                   [] OTHER -> SYS_0nnn(c))
          [] family = 1 -> JP_1nnn(c, nnn)
          [] family = 2 -> CALL_2nnn(c, nnn)
          [] family = 3 -> SE_3xkk(c, x, kk)
          [] family = 4 -> SNE_4xkk(c, x, kk)
          [] family = 5 -> SE_5xy0(c, x, y)
          [] family = 6 -> LD_6xkk(c, x, kk)
          [] family = 7 -> ADD_7xkk(c, x, kk)
          [] family = 8 ->
                (CASE n = 0 -> LD_8xy0(c, x, y)
                   [] n = 1 -> OR_8xy1(c, x, y)
                   [] n = 2 -> AND_8xy2(c, x, y)
                   [] n = 3 -> XOR_8xy3(c, x, y)
                   [] n = 4 -> ADD_8xy4(c, x, y)
                   [] n = 5 -> SUB_8xy5(c, x, y)
                   [] n = 6 -> SHR_8xy6(c, x)
                   [] n = 7 -> SUBN_8xy7(c, x, y)
                   [] n = 14 -> SHL_8xyE(c, x)
                   [] OTHER -> Undefined(c))
          [] family = 9 -> SNE_9xy0(c, x, y)
          [] family = 10 -> LD_Annn(c, nnn)
          [] family = 11 -> JP_Bnnn(c, nnn)
          [] family = 12 -> RND_Cxkk(c, x, kk, rnd)
          [] family = 13 -> DRW_Dxyn(c, x, y, n)
          [] family = 14 ->
                (CASE kk = 158 -> SKP_Ex9E(c, x)
                   [] kk = 161 -> SKNP_ExA1(c, x)
                   [] OTHER -> Undefined(c))
          [] OTHER ->
                (CASE kk = 7 -> LD_Fx07(c, x)
                   [] kk = 10 -> LD_Fx0A(c, x)
                   [] kk = 21 -> LD_Fx15(c, x)
                   [] kk = 24 -> LD_Fx18(c, x)
                   [] kk = 30 -> ADD_Fx1E(c, x)
                   [] kk = 41 -> LD_Fx29(c, x)
                   [] kk = 51 -> LD_Fx33(c, x)
                   [] kk = 85 -> LD_Fx55(c, x)
                   [] kk = 101 -> LD_Fx65(c, x)
                   [] OTHER -> Undefined(c))

\* fn run_next_cpu_cycle: the two bytes at pc, pc += 2, then the dispatch
RunNextCpuCycle(c, rnd) ==
    IF c.panicked THEN c
    ELSE IF c.pc + 1 >= MEMORY_SIZE THEN Panic(c)
    ELSE Dispatch([c EXCEPT !.pc = c.pc + 2], OpcodeAt(c), rnd)

(***************************************************************************)
(* update: the handler nannou calls once per frame                         *)
(***************************************************************************)
\* only the sound timer ticks
TickTimers_sound_only(c) ==
    [c EXCEPT !.timer_sound = IF c.timer_sound > 0 THEN c.timer_sound - 1 ELSE 0]

\* the two `if timer > 0 { timer -= 1 }` at the head of update
TickTimers(c) ==
    [c EXCEPT !.timer_delay = IF c.timer_delay > 0 THEN c.timer_delay - 1 ELSE 0,
              !.timer_sound = IF c.timer_sound > 0 THEN c.timer_sound - 1 ELSE 0]

\* audio_control_channel.send(v).unwrap(): an Err, hence a panic, once the receiver is gone
SendAudio(c, v) ==
    IF audio_thread = "dead" THEN Panic(c)
    ELSE [c EXCEPT !.audio_control_channel = Append(c.audio_control_channel, v)]

\* the play / stop transition of the loop body
AudioStep(c) ==
    IF c.panicked THEN c
    ELSE IF ~c.audio_is_playing /\ c.timer_sound > 0
         THEN SendAudio([c EXCEPT !.audio_is_playing = TRUE], TRUE)
    ELSE IF c.audio_is_playing /\ c.timer_sound = 0
         THEN SendAudio([c EXCEPT !.audio_is_playing = FALSE], FALSE)
    ELSE c

\* the clear is left out
ClearStep_skipped(c) == c

\* if chip8.needs_clear { display = [0; ...]; needs_clear = false }
ClearStep(c) ==
    IF c.panicked \/ ~c.needs_clear THEN c
    ELSE [c EXCEPT !.display = [p \in 0..(WIDTH * HEIGHT - 1) |-> 0],
                   !.needs_clear = FALSE]

\* if chip8.pc < (chip8.memory.len() as u16 - 2)
CycleRuns(c) == ~c.panicked /\ c.pc < MEMORY_SIZE - 2

\* one iteration of `for _i in 0..8`
LoopBody(c, rnd) ==
    ClearStep(AudioStep(IF CycleRuns(c) THEN RunNextCpuCycle(c, rnd) ELSE c))

\* the byte drawn by rand::random in this iteration, when the opcode is Cxkk
RandomBytes == (0..MaxRandom) \cup {255}

RandomChoices(c) ==
    IF CycleRuns(c) /\ OpcodeAt(c) \div 4096 = 12 THEN RandomBytes ELSE {0}

\* update is entered: the timers tick, and the loop starts unless a key is awaited
UpdateEnter ==
    /\ loop_i = LOOP_CYCLES
    /\ ~chip8.panicked
    /\ chip8' = TickTimers(chip8)
    /\ loop_i' = IF chip8.hold_for_key = None THEN 0 ELSE LOOP_CYCLES
    /\ UNCHANGED <<overflow_checks, audio_thread, program, cycles_run>>

\* one iteration of the loop of update; no other handler runs in between
UpdateIter ==
    /\ loop_i < LOOP_CYCLES
    /\ ~chip8.panicked
    /\ \E rnd \in RandomChoices(chip8) : chip8' = LoopBody(chip8, rnd)
    /\ loop_i' = loop_i + 1
    /\ cycles_run' = IF CycleRuns(chip8) /\ cycles_run < MaxCycles
                     THEN cycles_run + 1 ELSE cycles_run
    /\ UNCHANGED <<overflow_checks, audio_thread, program>>

(***************************************************************************)
(* The keyboard handlers                                                   *)
(***************************************************************************)
KeyNames == <<"Z", "Key1", "Space", "X", "Key2", "Key3", "Key4", "Q", "W", "E",
              "R", "A", "S", "D", "F", "C", "V">>

\* fn key_to_chip8_key_index
KeyToChip8KeyIndex(key) ==
    CASE key = "Key1" -> Some(1) [] key = "Key2" -> Some(2)
      [] key = "Key3" -> Some(3) [] key = "Key4" -> Some(12)
      [] key = "Q" -> Some(4) [] key = "W" -> Some(5)
      [] key = "E" -> Some(6) [] key = "R" -> Some(13)
      [] key = "A" -> Some(7) [] key = "S" -> Some(8)
      [] key = "D" -> Some(9) [] key = "F" -> Some(14)
      [] key = "Z" -> Some(10) [] key = "X" -> Some(0)
      [] key = "C" -> Some(11) [] key = "V" -> Some(15)
      [] OTHER -> None

\* fn key_pressed
KeyPressedOn(c, key) ==
    LET idx == KeyToChip8KeyIndex(key)
    IN  IF idx = None THEN c
        ELSE LET key_index == idx[1]
                 c1 == IF c.hold_for_key # None
                       THEN [c EXCEPT !.registers[c.hold_for_key[1]] = key_index]
                       ELSE c
             IN  [c1 EXCEPT !.keys[key_index] = TRUE]

\* fn key_released
KeyReleasedOn(c, key) ==
    LET idx == KeyToChip8KeyIndex(key)
    IN  IF idx = None THEN c ELSE [c EXCEPT !.keys[idx[1]] = FALSE]

UserKeys == {KeyNames[i] : i \in 1..NumKeys}

\* the window delivers a key press between two frames
KeyPressed ==
    /\ loop_i = LOOP_CYCLES
    /\ ~chip8.panicked
    /\ \E key \in UserKeys : chip8' = KeyPressedOn(chip8, key)
    /\ UNCHANGED <<loop_i, overflow_checks, audio_thread, program, cycles_run>>

\* the window delivers a key release between two frames
KeyReleased ==
    /\ loop_i = LOOP_CYCLES
    /\ ~chip8.panicked
    /\ \E key \in UserKeys : chip8' = KeyReleasedOn(chip8, key)
    /\ UNCHANGED <<loop_i, overflow_checks, audio_thread, program, cycles_run>>

(***************************************************************************)
(* The assembler (src/src/assembler.rs).  A string is a sequence of        *)
(* one-character strings, a source file a sequence of lines.               *)
(***************************************************************************)
StartsWith(s, pat) == Len(s) >= Len(pat) /\ SubSeq(s, 1, Len(pat)) = pat

EndsWith(s, pat) == Len(s) >= Len(pat) /\ SubSeq(s, Len(s) - Len(pat) + 1, Len(s)) = pat

RECURSIVE TrimStartMatches(_, _)
\* str::trim_start_matches: every repetition of the prefix is removed
TrimStartMatches(s, pat) ==
    IF pat # <<>> /\ StartsWith(s, pat)
    THEN TrimStartMatches(SubSeq(s, Len(pat) + 1, Len(s)), pat)
    ELSE s

RECURSIVE TrimEndMatches(_, _)
\* str::trim_end_matches: every repetition of the suffix is removed
TrimEndMatches(s, pat) ==
    IF pat # <<>> /\ EndsWith(s, pat)
    THEN TrimEndMatches(SubSeq(s, 1, Len(s) - Len(pat)), pat)
    ELSE s

RECURSIVE Find(_, _, _)
\* str::find(ch): the first position (from 1) of ch at or after i, 0 when there is none
Find(s, ch, i) ==
    IF i > Len(s) THEN 0
    ELSE IF s[i] = ch THEN i
    ELSE Find(s, ch, i + 1)

RECURSIVE Split(_, _)
\* str::split(sep) for a one-character separator: empty parts are kept
Split(s, sep) ==
    LET i == Find(s, sep, 1)
    IN  IF i = 0 THEN <<s>>
        ELSE <<SubSeq(s, 1, i - 1)>> \o Split(SubSeq(s, i + 1, Len(s)), sep)

\* the value of a digit in the radix, -1 when it is no digit of it
DigitValue(ch, radix) ==
    LET v == CASE ch = "0" -> 0 [] ch = "1" -> 1 [] ch = "2" -> 2 [] ch = "3" -> 3
               [] ch = "4" -> 4 [] ch = "5" -> 5 [] ch = "6" -> 6 [] ch = "7" -> 7
               [] ch = "8" -> 8 [] ch = "9" -> 9
               [] ch = "a" \/ ch = "A" -> 10 [] ch = "b" \/ ch = "B" -> 11
               [] ch = "c" \/ ch = "C" -> 12 [] ch = "d" \/ ch = "D" -> 13
               [] ch = "e" \/ ch = "E" -> 14 [] ch = "f" \/ ch = "F" -> 15
               [] OTHER -> -1
    IN  IF v < radix THEN v ELSE -1

RECURSIVE DigitsValue(_, _, _)
\* the digits accumulated into a u16; -1 on a character that is no digit or on overflow
DigitsValue(s, radix, acc) ==
    IF s = <<>> THEN acc
    ELSE LET d == DigitValue(Head(s), radix)
         IN  IF d < 0 \/ acc * radix + d > U16_MAX THEN -1
             ELSE DigitsValue(Tail(s), radix, acc * radix + d)

\* u16::from_str_radix: <<value>> for Ok, <<>> for Err; one leading + is accepted
U16FromStrRadix(s, radix) ==
    LET digits == IF s # <<>> /\ Head(s) = "+" THEN Tail(s) ELSE s
        v == DigitsValue(digits, radix, 0)
    IN  IF digits = <<>> \/ v < 0 THEN <<>> ELSE <<v>>

HexDigits == <<"0", "1", "2", "3", "4", "5", "6", "7", "8", "9",
               "a", "b", "c", "d", "e", "f">>

RECURSIVE LowerHex(_)
\* the digits of format!("{:x}", n)
LowerHex(n) ==
    IF n < 16 THEN <<HexDigits[n + 1]>>
    ELSE LowerHex(n \div 16) \o <<HexDigits[(n % 16) + 1]>>

\* format!("{:#x}", n) and format!("{:#03x}", n): the prefix counts in the width of 3
AltHex(n) == <<"0", "x">> \o LowerHex(n)

\* format!("{}", s): no padding
PadZeroLeft_no_padding(s, w) == s

RECURSIVE PadZeroLeft(_, _)
\* format!("{:0>w}", s)
PadZeroLeft(s, w) == IF Len(s) >= w THEN s ELSE PadZeroLeft(<<"0">> \o s, w)

\* HashMap::insert
LabelsInsert(labels, name, value) ==
    [k \in (DOMAIN labels) \cup {name} |-> IF k = name THEN value ELSE labels[k]]

\* an unknown label is taken as address 0
GetAddress_unknown_is_zero(text, labels) ==
    IF StartsWith(text, <<"0", "x">>)
    THEN <<PadZeroLeft(TrimStartMatches(text, <<"0", "x">>), 3)>>
    ELSE IF text \in DOMAIN labels
         THEN <<TrimStartMatches(AltHex(labels[text]), <<"0", "x">>)>>
         ELSE <<<<"0", "0", "0">>>>

\* fn get_address: <<string>> for Ok, <<>> for Err(UnknownLabel)
GetAddress(text, labels) ==
    IF StartsWith(text, <<"0", "x">>)
    THEN <<PadZeroLeft(TrimStartMatches(text, <<"0", "x">>), 3)>>
    ELSE IF text \in DOMAIN labels
         THEN <<TrimStartMatches(AltHex(labels[text]), <<"0", "x">>)>>
         ELSE <<>>

\* fn get_hex_str: <<string>> for Some, <<>> for None
GetHexStr(text) ==
    IF StartsWith(text, <<"0", "x">>)
    THEN <<TrimStartMatches(text, <<"0", "x">>)>>
    ELSE LET n == U16FromStrRadix(text, 10)
         IN  IF n # <<>> THEN <<TrimStartMatches(AltHex(n[1]), <<"0", "x">>)>>
             ELSE <<>>

\* the results of parse_asm_line: Ok(opcode), Err(NoOpcode), Err(Incomplete), or a panic
ParseOk(opcode, labels) == [kind |-> "Ok", opcode |-> opcode, labels |-> labels]
ParseNoOpcode(labels) == [kind |-> "NoOpcode", opcode |-> 0, labels |-> labels]
ParseIncomplete(labels) == [kind |-> "Incomplete", opcode |-> 0, labels |-> labels]
ParsePanic(labels) == [kind |-> "Panic", opcode |-> 0, labels |-> labels]

\* the value of opcode_str: Some(string), None, an early return Err(Incomplete), or a panic
StrSome(str) == [kind |-> "Some", str |-> str]
StrNone == [kind |-> "None", str |-> <<>>]
StrIncomplete == [kind |-> "Incomplete", str |-> <<>>]
StrPanic == [kind |-> "Panic", str |-> <<>>]

\* "JP": 1nnn with one operand, Bnnn otherwise
OpcodeStrJP(parts, nnn, labels) ==
    IF Len(parts) = 2 THEN StrSome(<<"1">> \o nnn)
    ELSE IF Len(parts) < 3 THEN StrPanic
    ELSE LET addr == GetAddress(parts[3], labels)
         IN  IF addr = <<>> THEN StrIncomplete
             ELSE StrSome(<<"B">> \o PadZeroLeft(addr[1], 2))

\* "LD": the chain of forms; parts[1] and parts[2] of the source are indexed unchecked
OpcodeStrLD(parts, x, y, kk, labels) ==
    IF x # <<>> /\ y # <<>> THEN StrSome(<<"8">> \o x \o y \o <<"0">>)
    ELSE IF Len(parts) < 2 THEN StrPanic
    ELSE IF parts[2] = <<"I", ",">> /\ y # <<>> THEN StrSome(<<"F">> \o y \o <<"5", "5">>)
    ELSE IF parts[2] = <<"I", ",">>
         THEN IF Len(parts) < 3 THEN StrPanic
              ELSE LET addr == GetAddress(parts[3], labels)
                   IN  IF addr = <<>> THEN StrIncomplete
                       ELSE StrSome(<<"A">> \o addr[1])
    ELSE IF x # <<>> /\ Len(parts) < 3 THEN StrPanic
    ELSE IF x # <<>> /\ parts[3] = <<"D", "T">> THEN StrSome(<<"F">> \o x \o <<"0", "7">>)
    ELSE IF x # <<>> /\ parts[3] = <<"K">> THEN StrSome(<<"F">> \o x \o <<"0", "A">>)
    ELSE IF parts[2] = <<"D", "T", ",">> /\ y # <<>>
         THEN StrSome(<<"F">> \o y \o <<"1", "5">>)
    ELSE IF parts[2] = <<"S", "T", ",">> /\ y # <<>>
         THEN StrSome(<<"F">> \o y \o <<"1", "8">>)
    ELSE IF parts[2] = <<"F", ",">> /\ y # <<>> THEN StrSome(<<"F">> \o y \o <<"2", "9">>)
    ELSE IF parts[2] = <<"B", ",">> /\ y # <<>> THEN StrSome(<<"F">> \o y \o <<"3", "3">>)
    ELSE IF x # <<>> /\ parts[3] = <<"I">> THEN StrSome(<<"F">> \o x \o <<"6", "5">>)
    ELSE IF x # <<>> /\ kk # <<>> THEN StrSome(<<"6">> \o x \o kk)
    ELSE StrNone

\* the match on the mnemonic
OpcodeStr(command, parts, x, y, kk, nnn, n, labels) ==
    CASE command = <<"C", "L", "S">> -> StrSome(<<"0", "0", "E", "0">>)
      [] command = <<"R", "E", "T">> -> StrSome(<<"0", "0", "E", "E">>)
      [] command = <<"S", "Y", "S">> -> StrSome(<<"0">> \o nnn)
      [] command = <<"J", "P">> -> OpcodeStrJP(parts, nnn, labels)
      [] command = <<"C", "A", "L", "L">> -> StrSome(<<"2">> \o nnn)
      [] command = <<"S", "E">> ->
            IF y = <<>> THEN StrSome(<<"3">> \o x \o kk)
            ELSE StrSome(<<"5">> \o x \o y \o <<"0">>)
      [] command = <<"S", "N", "E">> ->
            IF y = <<>> THEN StrSome(<<"4">> \o x \o kk)
            ELSE StrSome(<<"9">> \o x \o y \o <<"0">>)
      [] command = <<"L", "D">> -> OpcodeStrLD(parts, x, y, kk, labels)
      [] command = <<"A", "D", "D">> ->
            IF y = <<>> THEN StrSome(<<"7">> \o x \o kk)
            ELSE IF x = <<>> THEN StrSome(<<"F">> \o y \o <<"1", "E">>)
            ELSE StrSome(<<"8">> \o x \o y \o <<"4">>)
      [] command = <<"O", "R">> -> StrSome(<<"8">> \o x \o y \o <<"1">>)
      [] command = <<"A", "N", "D">> -> StrSome(<<"8">> \o x \o y \o <<"2">>)
      [] command = <<"X", "O", "R">> -> StrSome(<<"8">> \o x \o y \o <<"3">>)
      [] command = <<"S", "U", "B">> -> StrSome(<<"8">> \o x \o y \o <<"5">>)
      [] command = <<"S", "H", "R">> ->
            IF y = <<>> THEN StrSome(<<"8">> \o x \o <<"0", "6">>)
            ELSE StrSome(<<"8">> \o x \o y \o <<"6">>)
      [] command = <<"S", "U", "B", "N">> -> StrSome(<<"8">> \o x \o y \o <<"7">>)
      [] command = <<"S", "H", "L">> ->
            IF y = <<>> THEN StrSome(<<"8">> \o x \o <<"0", "E">>)
            ELSE StrSome(<<"8">> \o x \o y \o <<"E">>)
      [] command = <<"R", "N", "D">> -> StrSome(<<"C">> \o x \o kk)
      [] command = <<"D", "R", "W">> -> StrSome(<<"D">> \o x \o y \o n)
      [] command = <<"S", "K", "P">> -> StrSome(<<"E">> \o x \o <<"9", "E">>)
      [] command = <<"S", "K", "N", "P">> -> StrSome(<<"E">> \o x \o <<"A", "1">>)
      [] OTHER -> StrNone

\* every register operand is taken as V0
RegisterOf_always_V0(part) == IF StartsWith(part, <<"V">>) THEN <<"0">> ELSE <<>>

\* the register digit of an operand: the Vs in front and the commas behind are trimmed
RegisterOf(part) ==
    IF StartsWith(part, <<"V">>)
    THEN TrimEndMatches(TrimStartMatches(part, <<"V">>), <<",">>)
    ELSE <<>>

\* fn parse_asm_line(line, labels, memory_index)
ParseAsmLine(raw_line, labels, memory_index) ==
    LET semi == Find(raw_line, ";", 1)
        line == IF semi > 0 THEN SubSeq(raw_line, 1, semi - 1) ELSE raw_line
    IN  IF line = <<>> THEN ParseNoOpcode(labels)
        ELSE
        LET parts == Split(TrimEndMatches(TrimStartMatches(line, <<" ">>), <<" ">>), " ")
            command == parts[1]
            x == IF Len(parts) >= 2 THEN RegisterOf(parts[2]) ELSE <<>>
            y == IF Len(parts) >= 3 THEN RegisterOf(parts[3]) ELSE <<>>
            kk == IF Len(parts) >= 3 /\ y = <<>>
                  THEN LET h == GetHexStr(parts[3])
                       IN  IF h # <<>> THEN PadZeroLeft(h[1], 2) ELSE <<>>
                  ELSE <<>>
            wants_nnn == x = <<>> /\ y = <<>> /\ Len(parts) = 2
            address == IF wants_nnn THEN GetAddress(parts[2], labels) ELSE <<>>
            nnn == IF address # <<>> THEN address[1] ELSE <<>>
            n == IF Len(parts) >= 4
                 THEN LET h == GetHexStr(parts[4])
                      IN  IF h # <<>> THEN h[1] ELSE <<>>
                 ELSE <<>>
        IN  IF wants_nnn /\ address = <<>> THEN ParseIncomplete(labels)
            ELSE IF EndsWith(command, <<":">>)
                 THEN ParseNoOpcode(LabelsInsert(labels,
                                       SubSeq(command, 1, Len(command) - 1), memory_index))
            ELSE LET opcode_str == OpcodeStr(command, parts, x, y, kk, nnn, n, labels)
                 IN  CASE opcode_str.kind = "Incomplete" -> ParseIncomplete(labels)
                       [] opcode_str.kind = "Panic" -> ParsePanic(labels)
                       [] opcode_str.kind = "None" -> ParseNoOpcode(labels)
                       [] OTHER ->
                            LET opcode == U16FromStrRadix(opcode_str.str, 16)
                            IN  IF opcode # <<>> THEN ParseOk(opcode[1], labels)
                                ELSE ParsePanic(labels)

\* an AsmLine; opcode is an Option<u16>
AsmLine(line, opcode, memory_position) ==
    [line |-> line, opcode |-> opcode, memory_position |-> memory_position]

RECURSIVE FirstPass(_, _, _, _)
\* the body of the first loop once the line is parsed: both arms push an AsmLine
\* and advance memory_position by 2
FirstPassPush(lines, r, asm_lines, memory_position) ==
    IF r.kind = "Panic"
    THEN [panicked |-> TRUE, labels |-> r.labels, asm_lines |-> asm_lines]
    ELSE FirstPass(Tail(lines), r.labels,
                   Append(asm_lines,
                          AsmLine(Head(lines),
                                  IF r.kind = "Ok" THEN Some(r.opcode) ELSE None,
                                  memory_position)),
                   memory_position + 2)

\* the loop over reader.lines()
FirstPass(lines, labels, asm_lines, memory_position) ==
    IF lines = <<>>
    THEN [panicked |-> FALSE, labels |-> labels, asm_lines |-> asm_lines]
    ELSE FirstPassPush(lines, ParseAsmLine(Head(lines), labels, memory_position),
                       asm_lines, memory_position)

\* the second pass on one line: a line without opcode is parsed again
SecondPassLine(asm_line, labels) ==
    IF asm_line.opcode = None
    THEN ParseAsmLine(asm_line.line, labels, asm_line.memory_position)
    ELSE ParseOk(asm_line.opcode[1], labels)

\* the two pushes, the low byte of the opcode before the high byte
PushOpcode_low_byte_first(instructions, opcode) ==
    instructions \o <<opcode % 256, opcode \div 256>>

\* instructions.push(((opcode & 0xFF00) >> 8) as u8); instructions.push((opcode & 0x00FF) as u8)
PushOpcode(instructions, opcode) ==
    instructions \o <<opcode \div 256, opcode % 256>>

RECURSIVE SecondPass(_, _, _)
\* the body of the second loop once the line has its result: no opcode is
\* panic!("Invalid asm line: {}", asm_line.line)
SecondPassPush(asm_lines, r, instructions) ==
    IF r.kind # "Ok"
    THEN [panicked |-> TRUE, instructions |-> instructions,
          message |-> <<"I", "n", "v", "a", "l", "i", "d", " ", "a", "s", "m", " ", "l", "i", "n", "e", ":", " ">>
                      \o Head(asm_lines).line]
    ELSE SecondPass(Tail(asm_lines), r.labels, PushOpcode(instructions, r.opcode))

\* the loop over asm_lines
SecondPass(asm_lines, labels, instructions) ==
    IF asm_lines = <<>> THEN [panicked |-> FALSE, instructions |-> instructions]
    ELSE SecondPassPush(asm_lines, SecondPassLine(Head(asm_lines), labels), instructions)

\* the second loop runs on what the first loop left
AssembleSecond(first) ==
    IF first.panicked THEN [panicked |-> TRUE, instructions |-> <<>>]
    ELSE SecondPass(first.asm_lines, first.labels, <<>>)

\* pub fn assemble: the lines of the file to the bytes of the program, or a panic
Assemble(lines) == AssembleSecond(FirstPass(lines, <<>>, <<>>, PROGRAM_BASE))

(***************************************************************************)
(* Programs                                                                *)
(***************************************************************************)
\* the four nibbles of an opcode
Op(a, b, c, d) == a * 4096 + b * 256 + c * 16 + d

RECURSIVE OpcodeBytes(_)
\* opcodes as the bytes of a ROM, high byte first
OpcodeBytes(ops) ==
    IF ops = <<>> THEN <<>>
    ELSE <<Head(ops) \div 256, Head(ops) % 256>> \o OpcodeBytes(Tail(ops))

\* a ROM read by load_rom_from_file
Rom(ops) ==
    [from_asm |-> FALSE, source |-> <<>>, instructions |-> OpcodeBytes(ops),
     load_panicked |-> FALSE]

\* the program model() holds once assemble has returned a
Assembled(lines, a) ==
    [from_asm |-> TRUE, source |-> lines, instructions |-> a.instructions,
     load_panicked |-> a.panicked]

\* a source file handed to assembler::assemble
Asm(lines) == Assembled(lines, Assemble(lines))

\* "LD V0, 0x05" and "ADD V0, 0x03"
SrcLdAdd ==
    << <<"L", "D", " ", "V", "0", ",", " ", "0", "x", "0", "5">>,
       <<"A", "D", "D", " ", "V", "0", ",", " ", "0", "x", "0", "3">> >>

\* JP to the address of the k-th opcode of the program (k from 0)
JpTo(k) == Op(1, 0, 0, 0) + PROGRAM_BASE + 2 * k

\* LD Vx, K in first place, or in eighth place of the first frame; then two loads and a loop
KeyWaitPrograms ==
    {Rom(<<Op(15, x, 0, 10), Op(6, 1, 0, 5), Op(7, 1, 0, 1), JpTo(3)>>) : x \in {0, 3}}
    \cup
    {Rom(<<Op(6, 2, 0, 1), Op(6, 2, 0, 2), Op(6, 2, 0, 3), Op(6, 2, 0, 4),
           Op(6, 2, 0, 5), Op(6, 2, 0, 6), Op(6, 2, 0, 7), Op(15, 2, 0, 10),
           Op(7, 2, 0, 1), JpTo(9)>>)}

\* the state model() returns
InitWith(programs) ==
    /\ program \in programs
    /\ chip8 = IF program.load_panicked THEN Panic(NewChip8(<<>>))
               ELSE NewChip8(program.instructions)
    /\ loop_i = LOOP_CYCLES
    /\ overflow_checks \in BOOLEAN
    /\ audio_thread = "running"
    /\ cycles_run = 0

Init == InitWith(KeyWaitPrograms \cup {Asm(SrcLdAdd)})

Next == UpdateEnter \/ UpdateIter \/ KeyPressed \/ KeyReleased

Spec == Init /\ [][Next]_vars

(***************************************************************************)
(* Specification of the arithmetic programs: two loads, one 8xyN           *)
(* instruction, and a jump to itself                                       *)
(***************************************************************************)
\* 6xkk with kk = v
LdByte(x, v) == Op(6, x, v \div 16, v % 16)

AluRegs == (0..MaxAluReg) \cup {15}

AluVals == (0..MaxAluVal) \cup {127, 128, 255}

\* ADD, SUB, SHR, SUBN, SHL
AluOps == {4, 5, 6, 7, 14}

AluPrograms ==
    {Rom(<<LdByte(x, a), LdByte(y, b), Op(8, x, y, op), JpTo(3)>>) :
        x \in AluRegs, y \in AluRegs, a \in AluVals, b \in AluVals, op \in AluOps}

InitAlu == InitWith(AluPrograms)

\* the frames alone: no key is touched
NextCpu == UpdateEnter \/ UpdateIter

SpecAlu == InitAlu /\ [][NextCpu]_vars

(***************************************************************************)
(* Specification of the drawing programs: the coordinates, VF and I are    *)
(* loaded, the sprite is drawn twice at the same place, then once one      *)
(* column further, and the program jumps to itself                         *)
(***************************************************************************)
\* start columns and rows: inside, at the last column / row, and beyond the screen
DrawXs == {0, 60, 63, 70, 255}

DrawYs == {0, 20, 31, 33, 255}

SpriteRows == (0..MaxSpriteRows) \cup {15}

\* the digit sprites 0 and F, and the last bytes of memory
SpriteAddrs == {0, 75, 4090}

DrawPrograms ==
    {Rom(<<LdByte(0, a), LdByte(1, b), LdByte(15, f),
           Op(10, 0, 0, 0) + i,
           Op(13, 0, 1, n), Op(13, 0, 1, n),
           Op(7, 0, 0, 1), Op(13, 0, 1, n), JpTo(8)>>) :
        a \in DrawXs, b \in DrawYs, f \in {0, 1}, i \in SpriteAddrs, n \in SpriteRows}
    \cup
    {Rom(<<LdByte(0, b), LdByte(15, a), Op(13, 15, 0, n), Op(13, 15, 0, n), JpTo(4)>>) :
        a \in DrawXs, b \in DrawYs, n \in SpriteRows}

InitDraw == InitWith(DrawPrograms)

SpecDraw == InitDraw /\ [][NextCpu]_vars

(***************************************************************************)
(* The instruction about to be executed                                    *)
(***************************************************************************)
\* the next step of update runs a cycle
CycleNext == loop_i < LOOP_CYCLES /\ CycleRuns(chip8)

\* the fields of the opcode that cycle fetches
NextOpcode == OpcodeAt(chip8)
NextX == (NextOpcode \div 256) % 16
NextY == (NextOpcode % 256) \div 16
NextN == NextOpcode % 16

\* the next step executes 8xyN with N = n
Executes8(n) == CycleNext /\ NextOpcode \div 4096 = 8 /\ NextN = n

\* the next step executes Dxyn
ExecutesDraw == CycleNext /\ NextOpcode \div 4096 = 13

\* the values Vx and Vy hold before the instruction
ValX == chip8.registers[NextX]
ValY == chip8.registers[NextY]

\* the opcode stored at an address
OpcodeIn(addr) == chip8.memory[addr] * 256 + chip8.memory[addr + 1]

(***************************************************************************)
(* C1                                                                      *)
(***************************************************************************)
\* C1: the source "LD V0, 0x05" / "ADD V0, 0x03", assembled and loaded at 0x200
\* of a fresh machine, leaves V0 = 0x08 and pc = 0x204 after exactly two cycles.
C1_LdAddTwoCycles ==
    (program.from_asm /\ program.source = SrcLdAdd /\ cycles_run = 2)
        => (~chip8.panicked /\ chip8.registers[0] = 8 /\ chip8.pc = 516)

\* two cycles of the assembled program have run
C1_Witness ==
    /\ program.from_asm /\ program.source = SrcLdAdd
    /\ program.instructions = <<96, 5, 112, 3>>
    /\ cycles_run = 2 /\ loop_i = 2
    /\ chip8.registers[0] = 8

(***************************************************************************)
(* C2, C3: the wait for a key                                              *)
(***************************************************************************)
\* C2: while a key is awaited (hold_for_key is Some), no step executes an
\* instruction cycle and pc keeps its value; this covers the iterations left
\* in the frame whose cycle executed Fx0A, where no key press can have occurred.
C2_NoCycleWhileWaiting ==
    [][(chip8.hold_for_key # None)
          => (chip8'.pc = chip8.pc /\ cycles_run' = cycles_run)]_vars

\* a step that is the handling of a press of a mapped key
KeyPressStep(key) ==
    /\ loop_i = LOOP_CYCLES /\ loop_i' = LOOP_CYCLES
    /\ KeyToChip8KeyIndex(key) # None
    /\ chip8' = KeyPressedOn(chip8, key)

\* C3: a press of mapped key k while waiting for register x stores k in Vx and
\* ends the wait (hold_for_key becomes None, so that the next frames run
\* cycles); a press while running writes no register.
C3_KeyPressResumes ==
    [][\A key \in UserKeys :
          KeyPressStep(key) =>
             IF chip8.hold_for_key # None
             THEN /\ chip8'.registers[chip8.hold_for_key[1]] = KeyToChip8KeyIndex(key)[1]
                  /\ chip8'.hold_for_key = None
             ELSE chip8'.registers = chip8.registers]_vars

(***************************************************************************)
(* C4 .. C8: the 8xyN instructions                                         *)
(***************************************************************************)
\* C4: after 8xy5 (SUB Vx, Vy), for all x and y, VF is 1 if Vx was strictly
\* greater than Vy before the instruction, and 0 otherwise.
C4_SubFlag ==
    [][Executes8(5) => chip8'.registers[15] = (IF ValX > ValY THEN 1 ELSE 0)]_vars

\* C5: after 8xy5 (SUB Vx, Vy) with x in 0..E, Vx is max(a - b, 0) for the
\* values a of Vx and b of Vy before the instruction.
C5_SubResult ==
    [][(Executes8(5) /\ NextX # 15)
          => chip8'.registers[NextX] = (IF ValX - ValY > 0 THEN ValX - ValY ELSE 0)]_vars

\* C6: after 8xy7 (SUBN Vx, Vy) with x in 0..E, VF is 1 if b > a, else 0, and
\* Vx is max(b - a, 0), for the values a of Vx and b of Vy before the instruction.
C6_SubnFlagAndResult ==
    [][(Executes8(7) /\ NextX # 15)
          => /\ chip8'.registers[15] = (IF ValY > ValX THEN 1 ELSE 0)
             /\ chip8'.registers[NextX] = (IF ValY - ValX > 0 THEN ValY - ValX ELSE 0)]_vars

\* C7: after 8xy4 (ADD Vx, Vy), for all x and y, VF is 1 if a + b > 0xFF, else 0,
\* and when x is not 0xF, Vx is (a + b) mod 256, for the values a and b before.
C7_AddCarryAndSum ==
    [][Executes8(4)
          => /\ chip8'.registers[15] = (IF ValX + ValY > 255 THEN 1 ELSE 0)
             /\ (NextX # 15 => chip8'.registers[NextX] = (ValX + ValY) % 256)]_vars

\* an ADD of 255 and 255 into a register other than VF has been executed
C7_Witness ==
    /\ OpcodeIn(516) \div 4096 = 8 /\ OpcodeIn(516) % 16 = 4
    /\ (OpcodeIn(516) \div 256) % 16 # 15
    /\ chip8.pc = 518 /\ loop_i = 3 /\ cycles_run = 3
    /\ chip8.registers[15] = 1
    /\ chip8.registers[(OpcodeIn(516) \div 256) % 16] = 254

\* C8: after 8xyE (SHL Vx) with x in 0..E, VF is bit 7 of a and Vx is
\* (a * 2) mod 256, for the value a of Vx before the instruction.
C8_ShlFlagAndResult ==
    [][(Executes8(14) /\ NextX # 15)
          => /\ chip8'.registers[15] = ValX \div 128
             /\ chip8'.registers[NextX] = (ValX * 2) % 256]_vars

(***************************************************************************)
(* C9, C10: Dxyn                                                           *)
(***************************************************************************)
\* every sprite row the instruction reads is a cell of memory
SpriteInMemory == chip8.register_i + NextN <= MEMORY_SIZE

\* C9: after Dxyn, whatever VF held before, VF is 1 if some display pixel went
\* from 1 to 0 during the draw, and 0 if none did.
C9_DrawCollisionFlag ==
    [][(ExecutesDraw /\ SpriteInMemory)
          => chip8'.registers[15] =
                (IF \E p \in 0..(WIDTH * HEIGHT - 1) :
                        chip8.display[p] = 1 /\ chip8'.display[p] = 0
                 THEN 1 ELSE 0)]_vars

\* C10: Dxyn XORs bit (row r, column c, most significant bit first) of the
\* sprite into the display cell at column (Vx + c) mod 64 and row (Vy + r)
\* mod 32, every index it computes is within 0..2047 (no panic), and it changes
\* no other cell.
C10_DrawWraps ==
    [][(ExecutesDraw /\ SpriteInMemory)
          => LET vx == ValX
                 vy == ValY
                 n == NextN
                 cell(r, c) == ((vy + r) % 32) * 64 + ((vx + c) % 64)
                 touched == {cell(r, c) : r \in 0..(n - 1), c \in 0..7}
             IN  /\ ~chip8'.panicked
                 /\ \A r \in 0..(n - 1), c \in 0..7 :
                       /\ PxIndex(vx, vy, r, c) \in 0..2047
                       /\ PxIndex(vx, vy, r, c) = cell(r, c)
                       /\ chip8'.display[cell(r, c)] =
                             (chip8.display[cell(r, c)]
                                + Bit(chip8.memory[chip8.register_i + r], 7 - c)) % 2
                 /\ \A p \in (0..2047) \ touched :
                       chip8'.display[p] = chip8.display[p]]_vars

\* the digit 0 has been drawn from column 63 and row 31: its first row lights
\* column 0 of row 31, and its second row lights column 2 of row 0
C10_Witness ==
    /\ OpcodeIn(520) = Op(13, 0, 1, 15) /\ chip8.pc = 522 /\ loop_i = 5
    /\ chip8.register_i = 0
    /\ chip8.registers[0] = 63 /\ chip8.registers[1] = 31
    /\ chip8.display[31 * 64] = 1 /\ chip8.display[2] = 1
    /\ chip8.display[31 * 64 + 63] = 1 /\ chip8.display[63] = 1

(***************************************************************************)
(* Specification of the block transfers: registers are loaded, stored at I *)
(* by Fx55, V0 is overwritten, the registers are read back by Fx65, and    *)
(* the program jumps to itself                                             *)
(***************************************************************************)
\* the last register of a transfer: 0..MaxStoreReg, and 0xF
StoreRegs == (0..MaxStoreReg) \cup {15}

\* I is in free memory (768) or at the last cells of memory
MemPrograms ==
    {Rom(<<LdByte(0, a), LdByte(1, 2), LdByte(15, 7), Op(10, 0, 0, 0) + i,
           Op(15, x, 5, 5), LdByte(0, 9), Op(15, z, 6, 5), JpTo(7)>>) :
        a \in {1, 255}, i \in {768, 4080, 4094, 4095}, x \in StoreRegs, z \in StoreRegs}

SpecMem == InitWith(MemPrograms) /\ [][NextCpu]_vars

\* the next step executes FxNN with NN = kk
ExecutesF(kk) == CycleNext /\ NextOpcode \div 4096 = 15 /\ NextOpcode % 256 = kk

(***************************************************************************)
(* C11: Fx55, Fx65                                                         *)
(***************************************************************************)
\* C11: with register_i + x <= 4095, Fx55 writes V0..Vx into memory[I..I+x] and
\* changes no other memory cell and no register; Fx65 writes memory[I..I+x] into
\* V0..Vx and changes no register above x and no memory cell; both leave
\* register_i unchanged.
C11_BlockTransferFrame ==
    [][/\ (ExecutesF(85) /\ chip8.register_i + NextX <= 4095)
            => /\ ~chip8'.panicked
               /\ chip8'.memory =
                     [a \in 0..(MEMORY_SIZE - 1) |->
                        IF a >= chip8.register_i /\ a <= chip8.register_i + NextX
                        THEN chip8.registers[a - chip8.register_i]
                        ELSE chip8.memory[a]]
               /\ chip8'.registers = chip8.registers
               /\ chip8'.register_i = chip8.register_i
       /\ (ExecutesF(101) /\ chip8.register_i + NextX <= 4095)
            => /\ ~chip8'.panicked
               /\ chip8'.registers =
                     [r \in 0..15 |->
                        IF r <= NextX THEN chip8.memory[chip8.register_i + r]
                        ELSE chip8.registers[r]]
               /\ chip8'.memory = chip8.memory
               /\ chip8'.register_i = chip8.register_i]_vars

\* V0..VF have been stored in the last 16 cells of memory and read back
C11_Witness ==
    /\ OpcodeIn(520) = Op(15, 15, 5, 5) /\ OpcodeIn(524) = Op(15, 15, 6, 5)
    /\ chip8.pc = 526 /\ ~chip8.panicked
    /\ chip8.register_i = 4080
    /\ chip8.memory[4080] = 255 /\ chip8.memory[4081] = 2 /\ chip8.memory[4095] = 7
    /\ chip8.registers[0] = 255 /\ chip8.registers[15] = 7

(***************************************************************************)
(* Specification of the call stack: chains of nested CALLs, a subroutine   *)
(* that returns, and RETs with nothing pushed                              *)
(***************************************************************************)
\* the opcode of CALL to the address of the k-th opcode of the program (k from 0)
CallTo(k) == Op(2, 0, 0, 0) + PROGRAM_BASE + 2 * k

\* 00EE
RetOpcode == Op(0, 0, 14, 14)

\* n nested calls, each to the next instruction, then a jump to itself; a RET with
\* nothing pushed; subroutines that return
StackPrograms ==
    {Rom([k \in 1..(n + 1) |-> IF k <= n THEN CallTo(k) ELSE JpTo(n)]) :
        n \in {1, 2, 15, 16, 17}}
    \cup
    {Rom(<<RetOpcode, JpTo(1)>>),
     Rom(<<CallTo(3), RetOpcode, JpTo(2), RetOpcode>>),
     Rom(<<CallTo(2), JpTo(1), CallTo(4), RetOpcode, RetOpcode>>),
     Rom(<<LdByte(0, 1), RetOpcode, JpTo(2)>>),
     \* 15 nested calls that all return: CALL at 0x200, 0x204, .., 0x238, RET at
     \* 0x23C, 0x23A, .., 0x206, and a jump to itself at 0x202
     Rom([k \in 1..31 |-> IF k = 2 THEN JpTo(1)
                          ELSE IF k % 2 = 1 /\ k < 31 THEN CallTo(k + 1)
                          ELSE RetOpcode])}

SpecStack == InitWith(StackPrograms) /\ [][NextCpu]_vars

(***************************************************************************)
(* C12, C13: CALL and RET at the ends of the stack                         *)
(***************************************************************************)
\* C12: from an empty stack, each of 16 nested CALLs (fewer than 16 calls are
\* outstanding when it executes) succeeds: it is not fatal, it saves its return
\* address in a stack entry no outstanding call uses, and it jumps to nnn.
C12_SixteenNestedCalls ==
    [][(CycleNext /\ NextOpcode \div 4096 = 2 /\ chip8.sp < 16)
          => /\ ~chip8'.panicked
             /\ chip8'.sp = chip8.sp + 1
             /\ chip8'.pc = NextOpcode % 4096
             /\ \E e \in 0..15 :
                   /\ chip8'.stack = [chip8.stack EXCEPT ![e] = chip8.pc + 2]
                   /\ e \notin 1..chip8.sp]_vars

\* C13: 00EE executed with sp = 0 is fatal: emulation terminates.
C13_RetUnderflowFatal ==
    [][(CycleNext /\ NextOpcode = RetOpcode /\ chip8.sp = 0) => chip8'.panicked]_vars

(***************************************************************************)
(* Assembly sources: lines built from tokens as the tests of               *)
(* parse_asm_line write them (one space between tokens, a comma behind     *)
(* every operand but the last)                                             *)
(***************************************************************************)
\* the operand Vx
RegTok(x) ==
    <<"V", <<"0", "1", "2", "3", "4", "5", "6", "7", "8", "9",
             "A", "B", "C", "D", "E", "F">>[x + 1]>>

RECURSIVE Join(_)
\* the tokens of a line, separated by one space
Join(tokens) ==
    IF Len(tokens) = 1 THEN tokens[1]
    ELSE tokens[1] \o <<" ">> \o Join(Tail(tokens))

\* a line with one operand, two operands
Line1(mnemonic, a) == Join(<<mnemonic, a>>)
Line2(mnemonic, a, b) == Join(<<mnemonic, a \o <<",">>, b>>)

\* a numeral: its text and its value
Num(text, value) == [text |-> text, value |-> value]

\* the registers named in the lines: V0..V(MaxAsmReg), and VF
AsmRegs == (0..MaxAsmReg) \cup {15}

\* a line and the opcode its form documents
Form(text, opcode) == [text |-> text, opcode |-> opcode]

\* 00E0 - CLS, 00EE - RET
FormsNoOperand ==
    {Form(<<"C", "L", "S">>, Op(0, 0, 14, 0)), Form(<<"R", "E", "T">>, Op(0, 0, 14, 14))}

\* every mnemonic / operand-shape pair.  Addresses are 0x202, 0xF (one digit) and
\* 0xFFF; bytes are 0x00, 0x5 (one digit), 0xFE and the decimal numeral 10; nibbles
\* are 0x0, 0xC, 0xF and the decimal numeral 12.
WellFormedLines ==
    FormsNoOperand
    \cup
    \* 0nnn - SYS addr, 1nnn - JP addr, 2nnn - CALL addr, Bnnn - JP V0, addr, Annn - LD I, addr
        UNION {{Form(Line1(<<"S", "Y", "S">>, a.text), a.value),
                Form(Line1(<<"J", "P">>, a.text), Op(1, 0, 0, 0) + a.value),
                Form(Line1(<<"C", "A", "L", "L">>, a.text), Op(2, 0, 0, 0) + a.value),
                Form(Line2(<<"J", "P">>, RegTok(0), a.text), Op(11, 0, 0, 0) + a.value),
                Form(Line2(<<"L", "D">>, <<"I">>, a.text), Op(10, 0, 0, 0) + a.value)} :
               a \in
                  {Num(<<"0", "x", "2", "0", "2">>, 514), Num(<<"0", "x", "F">>, 15), Num(<<"0", "x", "F", "F", "F">>, 4095)}}
    \cup
    \* 3xkk - SE Vx, byte, 4xkk - SNE Vx, byte, 6xkk - LD Vx, byte, 7xkk - ADD Vx, byte,
    \* Cxkk - RND Vx, byte
        UNION {{Form(Line2(<<"S", "E">>, RegTok(x), b.text), Op(3, x, 0, 0) + b.value),
                Form(Line2(<<"S", "N", "E">>, RegTok(x), b.text), Op(4, x, 0, 0) + b.value),
                Form(Line2(<<"L", "D">>, RegTok(x), b.text), Op(6, x, 0, 0) + b.value),
                Form(Line2(<<"A", "D", "D">>, RegTok(x), b.text), Op(7, x, 0, 0) + b.value),
                Form(Line2(<<"R", "N", "D">>, RegTok(x), b.text), Op(12, x, 0, 0) + b.value)} :
               x \in AsmRegs, b \in
                  {Num(<<"0", "x", "0", "0">>, 0), Num(<<"0", "x", "5">>, 5), Num(<<"0", "x", "F", "E">>, 254), Num(<<"1", "0">>, 10)}}
    \cup
    \* 5xy0 - SE Vx, Vy, 9xy0 - SNE Vx, Vy, 8xy0 - LD Vx, Vy, 8xy4 - ADD Vx, Vy,
    \* 8xy1 - OR, 8xy2 - AND, 8xy3 - XOR, 8xy5 - SUB, 8xy6 - SHR, 8xy7 - SUBN, 8xyE - SHL
        UNION {{Form(Line2(<<"S", "E">>, RegTok(x), RegTok(y)), Op(5, x, y, 0)),
                Form(Line2(<<"S", "N", "E">>, RegTok(x), RegTok(y)), Op(9, x, y, 0)),
                Form(Line2(<<"L", "D">>, RegTok(x), RegTok(y)), Op(8, x, y, 0)),
                Form(Line2(<<"A", "D", "D">>, RegTok(x), RegTok(y)), Op(8, x, y, 4)),
                Form(Line2(<<"O", "R">>, RegTok(x), RegTok(y)), Op(8, x, y, 1)),
                Form(Line2(<<"A", "N", "D">>, RegTok(x), RegTok(y)), Op(8, x, y, 2)),
                Form(Line2(<<"X", "O", "R">>, RegTok(x), RegTok(y)), Op(8, x, y, 3)),
                Form(Line2(<<"S", "U", "B">>, RegTok(x), RegTok(y)), Op(8, x, y, 5)),
                Form(Line2(<<"S", "H", "R">>, RegTok(x), RegTok(y)), Op(8, x, y, 6)),
                Form(Line2(<<"S", "U", "B", "N">>, RegTok(x), RegTok(y)), Op(8, x, y, 7)),
                Form(Line2(<<"S", "H", "L">>, RegTok(x), RegTok(y)), Op(8, x, y, 14))} :
               x \in AsmRegs, y \in AsmRegs}
    \cup
    \* 8x06 - SHR Vx, 8x0E - SHL Vx, Ex9E - SKP Vx, ExA1 - SKNP Vx, Fx07 - LD Vx, DT,
    \* Fx0A - LD Vx, K, Fx15 - LD DT, Vx, Fx18 - LD ST, Vx, Fx1E - ADD I, Vx,
    \* Fx29 - LD F, Vx, Fx33 - LD B, Vx, Fx55 - LD I, Vx, Fx65 - LD Vx, I
        UNION {{Form(Line1(<<"S", "H", "R">>, RegTok(x)), Op(8, x, 0, 6)),
                Form(Line1(<<"S", "H", "L">>, RegTok(x)), Op(8, x, 0, 14)),
                Form(Line1(<<"S", "K", "P">>, RegTok(x)), Op(14, x, 9, 14)),
                Form(Line1(<<"S", "K", "N", "P">>, RegTok(x)), Op(14, x, 10, 1)),
                Form(Line2(<<"L", "D">>, RegTok(x), <<"D", "T">>), Op(15, x, 0, 7)),
                Form(Line2(<<"L", "D">>, RegTok(x), <<"K">>), Op(15, x, 0, 10)),
                Form(Line2(<<"L", "D">>, <<"D", "T">>, RegTok(x)), Op(15, x, 1, 5)),
                Form(Line2(<<"L", "D">>, <<"S", "T">>, RegTok(x)), Op(15, x, 1, 8)),
                Form(Line2(<<"A", "D", "D">>, <<"I">>, RegTok(x)), Op(15, x, 1, 14)),
                Form(Line2(<<"L", "D">>, <<"F">>, RegTok(x)), Op(15, x, 2, 9)),
                Form(Line2(<<"L", "D">>, <<"B">>, RegTok(x)), Op(15, x, 3, 3)),
                Form(Line2(<<"L", "D">>, <<"I">>, RegTok(x)), Op(15, x, 5, 5)),
                Form(Line2(<<"L", "D">>, RegTok(x), <<"I">>), Op(15, x, 6, 5))} :
               x \in AsmRegs}
    \cup
    \* Dxyn - DRW Vx, Vy, nibble
        {Form(Join(<<<<"D", "R", "W">>, RegTok(x) \o <<",">>, RegTok(y) \o <<",">>, n.text>>),
                 Op(13, x, y, n.value)) :
            x \in AsmRegs, y \in AsmRegs, n \in
                {Num(<<"0", "x", "0">>, 0), Num(<<"0", "x", "C">>, 12), Num(<<"0", "x", "F">>, 15), Num(<<"1", "2">>, 12)}}

\* "JP 0x202": as second line of a source, a jump to itself
SpinLine == Line1(<<"J", "P">>, <<"0", "x", "2", "0", "2">>)

\* sources in which `JP end` precedes the line `end:`; jp and target are the places
\* (from 0) in the output of the JP and of the first instruction behind the label
ForwardJumpSources ==
    {[lines |-> <<<<"J", "P", " ", "e", "n", "d">>, <<"e", "n", "d", ":">>, <<"J", "P", " ", "0", "x", "2", "0", "2">>>>, jp |-> 0, target |-> 1],
     [lines |-> <<<<"J", "P", " ", "e", "n", "d">>, <<"C", "L", "S">>, <<"e", "n", "d", ":">>, <<"R", "E", "T">>>>, jp |-> 0, target |-> 2],
     [lines |-> <<<<"C", "L", "S">>, <<"J", "P", " ", "e", "n", "d">>, <<"R", "E", "T">>, <<"e", "n", "d", ":">>, <<"J", "P", " ", "0", "x", "2", "0", "6">>>>, jp |-> 1, target |-> 3]}

\* CLS and RET, with one line that is no instruction before, between or behind them:
\* an empty line, a line that is a comment, a line that is a label
NonInstructionSources ==
    UNION {{<<b, <<"C", "L", "S">>, <<"R", "E", "T">>>>, <<<<"C", "L", "S">>, b, <<"R", "E", "T">>>>, <<<<"C", "L", "S">>, <<"R", "E", "T">>, b>>} : b \in {<<>>, <<";", " ", "c">>, <<"h", "e", "r", "e", ":">>}}

\* lines with an operand missing, or with a word where a byte is required
MalformedLines ==
    {<<"A", "D", "D", " ", "V", "1">>, <<"O", "R", " ", "V", "1">>, <<"R", "N", "D", " ", "V", "2">>, <<"D", "R", "W", " ", "V", "1", ",", " ", "V", "2">>, <<"S", "E", " ", "V", "1", ",", " ", "f", "o", "o">>,
     <<"S", "N", "E", " ", "V", "1">>, <<"X", "O", "R", " ", "V", "1">>, <<"S", "K", "P">>, <<"C", "A", "L", "L">>, <<"L", "D", " ", "V", "1">>}

\* the sources handed to assemble
AsmPrograms ==
    {Asm(lines) : lines \in
        {<<f.text, SpinLine>> : f \in WellFormedLines}
        \cup {<<f.text>> : f \in FormsNoOperand}
        \cup {f.lines : f \in ForwardJumpSources}
        \cup NonInstructionSources
        \cup {<<m, SpinLine>> : m \in MalformedLines}}

SpecAsm == InitWith(AsmPrograms) /\ [][NextCpu]_vars

\* the opcode assemble emitted at place k (from 0) of its output
Emitted(k) == program.instructions[2 * k + 1] * 256 + program.instructions[2 * k + 2]

(***************************************************************************)
(* C14 .. C17: the assembler                                               *)
(***************************************************************************)
\* C14: for a source in which `JP end` precedes the line `end:`, assembly
\* completes and the opcode emitted for the JP is 0x1000 + A, A being the address
\* (0x200 + byte offset in the output) of the first instruction behind `end:`.
C14_ForwardLabel ==
    \A f \in ForwardJumpSources :
        (program.from_asm /\ program.source = f.lines)
            => /\ ~program.load_panicked
               /\ Len(program.instructions) >= 2 * f.jp + 2
               /\ Emitted(f.jp) = Op(1, 0, 0, 0) + PROGRAM_BASE + 2 * f.target

\* C15: an empty line, a comment line or a label line contributes no byte and
\* does not abort assembly: CLS and RET with one such line among them assemble
\* to the four bytes 00 E0 00 EE.
C15_NonInstructionLines ==
    (program.from_asm /\ program.source \in NonInstructionSources)
        => /\ ~program.load_panicked
           /\ program.instructions = OpcodeBytes(<<Op(0, 0, 14, 0), Op(0, 0, 14, 14)>>)

\* C16: a well-formed line of any form of the opcode table parses to the opcode
\* of the form with the operands in their places, bytes padded to two digits and
\* addresses to three, and assemble emits that opcode, high byte first.
C16_OpcodeTable ==
    \A f \in WellFormedLines :
        (program.from_asm /\ program.source[1] = f.text
           /\ (Len(program.source) = 1 \/ program.source = <<f.text, SpinLine>>))
            => /\ ParseAsmLine(f.text, <<>>, PROGRAM_BASE) = ParseOk(f.opcode, <<>>)
               /\ ~program.load_panicked
               /\ Len(program.instructions) = 2 * Len(program.source)
               /\ Emitted(0) = f.opcode

\* `DRW V0, VF, 0xC` has been assembled to D0FC, loaded at 0x200 and executed
C16_Witness ==
    /\ program.from_asm
    /\ program.source = <<<<"D", "R", "W", " ", "V", "0", ",", " ", "V", "F", ",", " ", "0", "x", "C">>, SpinLine>>
    /\ program.instructions = <<208, 252, 18, 2>>
    /\ OpcodeIn(512) = Op(13, 0, 15, 12)
    /\ chip8.pc = 514 /\ cycles_run = 2

\* C17: a line with an operand missing, or with a word where a byte is required,
\* aborts the assembler: no opcode is emitted for it.
C17_MalformedAborts ==
    (program.from_asm /\ Len(program.source) = 2 /\ program.source[1] \in MalformedLines)
        => program.load_panicked

(***************************************************************************)
(* Specification of the encodings no arm of the match defines: V0, both    *)
(* timers, the display, I and the stack are given values, the opcode is    *)
(* executed, and the program jumps to itself                               *)
(***************************************************************************)
\* the undefined opcodes: 0nnn other than 00E0 and 00EE (all of 00E1..00EF but
\* 00EE, and some others), 8xyN with N in 8..D or F, ExNN with NN neither 9E nor A1,
\* FxNN with NN none of 07, 0A, 15, 18, 1E, 29, 33, 55, 65
UndefinedOpcodes ==
    ((225..239) \ {238}) \cup {0, 1, 223, 291, 3808, 4095}
    \cup {Op(8, 1, 2, n) : n \in (8..13) \cup {15}}
    \cup {Op(14, 1, 0, 0) + nn : nn \in (0..255) \ {158, 161}}
    \cup {Op(15, 1, 0, 0) + nn : nn \in (0..255) \ {7, 10, 21, 24, 30, 41, 51, 85, 101}}

UndefinedPrograms ==
    {Rom(<<LdByte(0, 3), Op(15, 0, 1, 5), Op(15, 0, 1, 8), Op(13, 0, 0, 5),
           Op(10, 1, 2, 3), CallTo(6), u, JpTo(7)>>) : u \in UndefinedOpcodes}

SpecUndefined == InitWith(UndefinedPrograms) /\ [][NextCpu]_vars

\* an opcode of the families 0, 8, E, F that is no defined encoding
IsUndefined(opcode) ==
    LET family == opcode \div 4096
        nn == opcode % 256
    IN  \/ family = 0 /\ opcode \notin {224, 238}
        \/ family = 8 /\ opcode % 16 \in {8, 9, 10, 11, 12, 13, 15}
        \/ family = 14 /\ nn \notin {158, 161}
        \/ family = 15 /\ nn \notin {7, 10, 21, 24, 30, 41, 51, 85, 101}

(***************************************************************************)
(* C18                                                                     *)
(***************************************************************************)
\* C18: a cycle on an undefined opcode of the families 0, 8, E, F advances pc by
\* exactly 2, is not fatal, and leaves registers, register_i, memory, stack, sp,
\* both timers, display, keys and hold_for_key unchanged.
C18_UndefinedIsNoOp ==
    [][(CycleNext /\ IsUndefined(NextOpcode))
          => /\ ~chip8'.panicked
             /\ chip8'.pc = chip8.pc + 2
             /\ chip8'.registers = chip8.registers
             /\ chip8'.register_i = chip8.register_i
             /\ chip8'.memory = chip8.memory
             /\ chip8'.stack = chip8.stack
             /\ chip8'.sp = chip8.sp
             /\ chip8'.timer_delay = chip8.timer_delay
             /\ chip8'.timer_sound = chip8.timer_sound
             /\ chip8'.display = chip8.display
             /\ chip8'.keys = chip8.keys
             /\ chip8'.hold_for_key = chip8.hold_for_key]_vars

\* 812F has been executed with V0 = 3, both timers at 3, the digit 0 on the
\* display, I = 0x123 and one call outstanding
C18_Witness ==
    /\ OpcodeIn(524) = Op(8, 1, 2, 15) /\ chip8.pc = 526 /\ loop_i = 7
    /\ ~chip8.panicked
    /\ chip8.registers[0] = 3 /\ chip8.register_i = 291
    /\ chip8.timer_delay = 3 /\ chip8.timer_sound = 3
    /\ chip8.sp = 1 /\ chip8.stack[1] = 524
    /\ chip8.display[3 * 64 + 3] = 1 /\ chip8.display[4 * 64 + 3] = 1

(***************************************************************************)
(* Specification of the timers and of the audio notification: V0 is loaded *)
(* into both timers or into one, then the program jumps to itself, waits   *)
(* for a key, or jumps to the last cells of memory, where no cycle runs;   *)
(* the audio thread may end at any moment                                  *)
(***************************************************************************)
\* the values loaded into the timers: 0..MaxTimerVal, and 60
TimerVals == (0..MaxTimerVal) \cup {60}

\* the loads are followed by JP to itself, by LD V1, K, or by JP 0xFFE
TimerPrograms ==
    {Rom(<<LdByte(0, v), Op(15, 0, 1, 5), Op(15, 0, 1, 8), t>>) :
        v \in TimerVals, t \in {JpTo(3), Op(15, 1, 0, 10), Op(1, 15, 15, 14)}}
    \cup
    {Rom(<<LdByte(0, v), Op(15, 0, 1, k), JpTo(2)>>) : v \in TimerVals, k \in {5, 8}}

\* the thread spawned by model() ends: its unwraps panic when there is no audio
\* output, and rx is dropped with it
AudioThreadExits ==
    /\ audio_thread = "running"
    /\ ~chip8.panicked
    /\ audio_thread' = "dead"
    /\ UNCHANGED <<chip8, loop_i, overflow_checks, program, cycles_run>>

NextTimers == UpdateEnter \/ UpdateIter \/ AudioThreadExits

SpecTimers == InitWith(TimerPrograms) /\ [][NextTimers]_vars

(***************************************************************************)
(* C19, C20                                                                *)
(***************************************************************************)
\* C19: entering a frame decrements each timer by exactly 1 if it was above 0
\* and leaves it at 0 otherwise, whether the frame then runs 8 cycles, fewer or
\* none; an iteration of the frame changes timer_delay only by executing Fx15
\* and timer_sound only by executing Fx18, which store Vx.
C19_TimersTickOncePerFrame ==
    [][/\ (loop_i = LOOP_CYCLES /\ audio_thread' = audio_thread)
            => /\ chip8'.timer_delay = (IF chip8.timer_delay > 0 THEN chip8.timer_delay - 1 ELSE 0)
               /\ chip8'.timer_sound = (IF chip8.timer_sound > 0 THEN chip8.timer_sound - 1 ELSE 0)
       /\ (loop_i < LOOP_CYCLES /\ audio_thread' = audio_thread)
            => /\ \/ chip8'.timer_delay = chip8.timer_delay
                  \/ ExecutesF(21) /\ chip8'.timer_delay = ValX
               /\ \/ chip8'.timer_sound = chip8.timer_sound
                  \/ ExecutesF(24) /\ chip8'.timer_sound = ValX]_vars

\* both timers were set to 60 in the first frame, whose fourth cycle began the
\* wait for a key; two frames without any cycle have brought them to 58
C19_Witness ==
    /\ chip8.hold_for_key # None /\ loop_i = LOOP_CYCLES
    /\ cycles_run = MaxCycles /\ chip8.pc = 528
    /\ chip8.registers[0] = 60
    /\ chip8.timer_delay = 58 /\ chip8.timer_sound = 58

\* C20: a play / stop notification sent when the audio thread has ended is
\* tolerated: the step that sends it does not abort emulation.
C20_SendFailureTolerated ==
    [][(loop_i < LOOP_CYCLES /\ audio_thread' = audio_thread /\ audio_thread = "dead"
          /\ chip8'.audio_is_playing # chip8.audio_is_playing)
          => ~chip8'.panicked]_vars

(***************************************************************************)
(* Specification of the edges of memory: jumps and calls to odd addresses  *)
(* and to the last cells, skips, and instructions whose cells at I run     *)
(* past the end of memory                                                  *)
(***************************************************************************)
\* JP to 0xFFB..0xFFF; LD V0, v and JP V0, 0xF00; CALL 0xFFD; SE taken and not taken;
\* LD I, 0xFFE followed by LD B, V0 / LD [I], V1 / LD V1, [I] / DRW V0, V0, 3
EdgePrograms ==
    {Rom(<<Op(1, 0, 0, 0) + a>>) : a \in 4091..4095}
    \cup
    {Rom(<<LdByte(0, v), Op(11, 15, 0, 0)>>) : v \in {0, 1, 254, 255}}
    \cup
    {Rom(<<Op(2, 15, 15, 13)>>)}
    \cup
    {Rom(<<LdByte(0, 1), Op(3, 0, 0, v), JpTo(2), JpTo(3)>>) : v \in {0, 1}}
    \cup
    {Rom(<<Op(10, 15, 15, 14), u, JpTo(2)>>) :
        u \in {Op(15, 0, 3, 3), Op(15, 1, 5, 5), Op(15, 1, 6, 5), Op(13, 0, 0, 3)}}

SpecEdge == InitWith(EdgePrograms) /\ [][NextCpu]_vars

(***************************************************************************)
(* C21, C22                                                                *)
(***************************************************************************)
\* C21: pc is 0x200 at initialisation and even after every cycle: a cycle adds 2
\* to pc, adds 4 (a taken skip), or assigns pc by 1nnn, 2nnn, Bnnn or 00EE.
C21_PcEven ==
    [][(CycleNext /\ chip8.pc % 2 = 0 /\ ~chip8'.panicked)
          => /\ chip8'.pc % 2 = 0
             /\ \/ chip8'.pc = chip8.pc + 2
                \/ chip8'.pc = chip8.pc + 4
                \/ NextOpcode \div 4096 \in {1, 2, 11}
                \/ NextOpcode = 238]_vars

\* C22: an iteration of update in which executing would access a memory cell
\* outside 0..4095 (the fetch at pc and pc + 1, the three cells of Fx33, the
\* cells I..I+x of Fx55 and Fx65, the n rows of Dxyn) is fatal.
C22_OutOfRangeFatal ==
    [][/\ (loop_i < LOOP_CYCLES /\ ~chip8.panicked /\ chip8.pc + 1 > MEMORY_SIZE - 1)
            => chip8'.panicked
       /\ (ExecutesF(51) /\ chip8.register_i + 2 > MEMORY_SIZE - 1)
            => chip8'.panicked
       /\ ((ExecutesF(85) \/ ExecutesF(101))
              /\ chip8.register_i + NextX > MEMORY_SIZE - 1)
            => chip8'.panicked
       /\ (ExecutesDraw /\ NextN > 0 /\ chip8.register_i + NextN - 1 > MEMORY_SIZE - 1)
            => chip8'.panicked]_vars

(***************************************************************************)
(* Specification of the display: a sprite is drawn, the display is         *)
(* cleared, the sprite is drawn again and a key is awaited; an instruction *)
(* of another kind stands before and behind the CLS; keys are pressed and  *)
(* released between the frames                                             *)
(***************************************************************************)
\* u is SYS, SE, LD, ADD, ADD Vx, Vy, RND, SKP, LD ST, LD F, LD B, LD [I], LD Vx, [I]
DisplayPrograms ==
    {Rom(<<Op(13, 0, 0, 5), u, Op(0, 0, 14, 0), u, Op(13, 0, 0, 5),
           Op(15, 1, 0, 10), JpTo(6)>>) :
        u \in {Op(0, 1, 2, 3), Op(3, 0, 0, 0), LdByte(0, 3), Op(7, 0, 0, 1),
               Op(8, 0, 1, 4), Op(12, 0, 15, 15), Op(14, 0, 9, 14), Op(15, 0, 1, 8),
               Op(15, 0, 2, 9), Op(15, 0, 3, 3), Op(15, 1, 5, 5), Op(15, 1, 6, 5)}}

SpecDisplay == InitWith(DisplayPrograms) /\ [][Next]_vars

(***************************************************************************)
(* C24                                                                     *)
(***************************************************************************)
\* C24: a step changes a display cell only if it is a cycle that executes Dxyn
\* or 00E0 (with the clear that follows it in the same iteration of update);
\* after an iteration that executes 00E0 every display cell is 0 and
\* needs_clear is false.
C24_DisplayFrame ==
    [][/\ chip8'.display # chip8.display
            => CycleNext /\ (NextOpcode \div 4096 = 13 \/ NextOpcode = 224)
       /\ (CycleNext /\ NextOpcode = 224 /\ ~chip8'.panicked)
            => /\ \A p \in 0..(WIDTH * HEIGHT - 1) : chip8'.display[p] = 0
               /\ ~chip8'.needs_clear]_vars

\* the digit 0 was drawn at (0, 0), V0 became 3, and 00E0 has just been executed
C24_Witness ==
    /\ OpcodeIn(512) = Op(13, 0, 0, 5) /\ OpcodeIn(514) = LdByte(0, 3)
    /\ chip8.pc = 518 /\ loop_i = 3
    /\ chip8.registers[0] = 3
    /\ \A p \in 0..(WIDTH * HEIGHT - 1) : chip8.display[p] = 0
    /\ ~chip8.needs_clear /\ ~chip8.panicked

(***************************************************************************)
(* Assembly sources that are executed: three loads give V0, V1 and VF      *)
(* distinct values, the fourth line is the instruction under test, the     *)
(* fifth a jump to itself.  Further sources hold decimal numerals, labels  *)
(* that are defined nowhere, and labels behind lines without instruction   *)
(***************************************************************************)
\* an instruction line, the form of the opcode table it is written in, and its
\* operands: the registers x and y and the immediate v (kk, nnn or n)
Instr(text, form, x, y, v) == [text |-> text, form |-> form, x |-> x, y |-> y, v |-> v]

\* every form of the table, over V0, V1, VF and some immediates; among the
\* addresses of SYS are 0x0E0 and 0x0EE
InstructionForms ==
    {Instr(<<"C", "L", "S">>, "00E0", 0, 0, 0), Instr(<<"R", "E", "T">>, "00EE", 0, 0, 0)}
    \cup
    {Instr(Line1(<<"S", "Y", "S">>, a.text), "0nnn", 0, 0, a.value) :
        a \in {Num(<<"0", "x", "0", "E", "0">>, 224), Num(<<"0", "x", "0", "E", "E">>, 238),
               Num(<<"0", "x", "F">>, 15), Num(<<"0", "x", "F", "F", "F">>, 4095)}}
    \cup
    UNION {{Instr(Line1(<<"J", "P">>, a.text), "1nnn", 0, 0, a.value),
            Instr(Line1(<<"C", "A", "L", "L">>, a.text), "2nnn", 0, 0, a.value),
            Instr(Line2(<<"J", "P">>, RegTok(0), a.text), "Bnnn", 0, 0, a.value),
            Instr(Line2(<<"L", "D">>, <<"I">>, a.text), "Annn", 0, 0, a.value)} :
           a \in {Num(<<"0", "x", "2", "0", "8">>, 520), Num(<<"0", "x", "F">>, 15),
                  Num(<<"0", "x", "F", "F", "F">>, 4095)}}
    \cup
    UNION {{Instr(Line2(<<"S", "E">>, RegTok(x), b.text), "3xkk", x, 0, b.value),
            Instr(Line2(<<"S", "N", "E">>, RegTok(x), b.text), "4xkk", x, 0, b.value),
            Instr(Line2(<<"L", "D">>, RegTok(x), b.text), "6xkk", x, 0, b.value),
            Instr(Line2(<<"A", "D", "D">>, RegTok(x), b.text), "7xkk", x, 0, b.value),
            Instr(Line2(<<"R", "N", "D">>, RegTok(x), b.text), "Cxkk", x, 0, b.value)} :
           x \in AsmRegs,
           b \in {Num(<<"0", "x", "0", "0">>, 0), Num(<<"0", "x", "5">>, 5),
                  Num(<<"0", "x", "F", "E">>, 254), Num(<<"1", "0">>, 10)}}
    \cup
    UNION {{Instr(Line2(<<"S", "E">>, RegTok(x), RegTok(y)), "5xy0", x, y, 0),
            Instr(Line2(<<"S", "N", "E">>, RegTok(x), RegTok(y)), "9xy0", x, y, 0),
            Instr(Line2(<<"L", "D">>, RegTok(x), RegTok(y)), "8xy0", x, y, 0),
            Instr(Line2(<<"A", "D", "D">>, RegTok(x), RegTok(y)), "8xy4", x, y, 0),
            Instr(Line2(<<"O", "R">>, RegTok(x), RegTok(y)), "8xy1", x, y, 0),
            Instr(Line2(<<"A", "N", "D">>, RegTok(x), RegTok(y)), "8xy2", x, y, 0),
            Instr(Line2(<<"X", "O", "R">>, RegTok(x), RegTok(y)), "8xy3", x, y, 0),
            Instr(Line2(<<"S", "U", "B">>, RegTok(x), RegTok(y)), "8xy5", x, y, 0),
            Instr(Line2(<<"S", "H", "R">>, RegTok(x), RegTok(y)), "8xy6", x, y, 0),
            Instr(Line2(<<"S", "U", "B", "N">>, RegTok(x), RegTok(y)), "8xy7", x, y, 0),
            Instr(Line2(<<"S", "H", "L">>, RegTok(x), RegTok(y)), "8xyE", x, y, 0)} :
           x \in AsmRegs, y \in AsmRegs}
    \cup
    UNION {{Instr(Line1(<<"S", "H", "R">>, RegTok(x)), "8xy6", x, 0, 0),
            Instr(Line1(<<"S", "H", "L">>, RegTok(x)), "8xyE", x, 0, 0),
            Instr(Line1(<<"S", "K", "P">>, RegTok(x)), "Ex9E", x, 0, 0),
            Instr(Line1(<<"S", "K", "N", "P">>, RegTok(x)), "ExA1", x, 0, 0),
            Instr(Line2(<<"L", "D">>, RegTok(x), <<"D", "T">>), "Fx07", x, 0, 0),
            Instr(Line2(<<"L", "D">>, RegTok(x), <<"K">>), "Fx0A", x, 0, 0),
            Instr(Line2(<<"L", "D">>, <<"D", "T">>, RegTok(x)), "Fx15", x, 0, 0),
            Instr(Line2(<<"L", "D">>, <<"S", "T">>, RegTok(x)), "Fx18", x, 0, 0),
            Instr(Line2(<<"A", "D", "D">>, <<"I">>, RegTok(x)), "Fx1E", x, 0, 0),
            Instr(Line2(<<"L", "D">>, <<"F">>, RegTok(x)), "Fx29", x, 0, 0),
            Instr(Line2(<<"L", "D">>, <<"B">>, RegTok(x)), "Fx33", x, 0, 0),
            Instr(Line2(<<"L", "D">>, <<"I">>, RegTok(x)), "Fx55", x, 0, 0),
            Instr(Line2(<<"L", "D">>, RegTok(x), <<"I">>), "Fx65", x, 0, 0)} :
           x \in AsmRegs}
    \cup
    {Instr(Join(<<<<"D", "R", "W">>, RegTok(x) \o <<",">>, RegTok(y) \o <<",">>, n.text>>),
           "Dxyn", x, y, n.value) :
        x \in AsmRegs, y \in AsmRegs,
        n \in {Num(<<"0", "x", "0">>, 0), Num(<<"0", "x", "5">>, 5), Num(<<"1", "2">>, 12)}}

\* the arm of run_next_cpu_cycle that carries out the form f, on the operands of f;
\* c has pc already advanced
Intended(c, f, rnd) ==
    CASE f.form = "00E0" -> CLS_00E0(c)
      [] f.form = "00EE" -> RET_00EE(c)
      [] f.form = "0nnn" -> SYS_0nnn(c)
      [] f.form = "1nnn" -> JP_1nnn(c, f.v)
      [] f.form = "2nnn" -> CALL_2nnn(c, f.v)
      [] f.form = "3xkk" -> SE_3xkk(c, f.x, f.v)
      [] f.form = "4xkk" -> SNE_4xkk(c, f.x, f.v)
      [] f.form = "5xy0" -> SE_5xy0(c, f.x, f.y)
      [] f.form = "6xkk" -> LD_6xkk(c, f.x, f.v)
      [] f.form = "7xkk" -> ADD_7xkk(c, f.x, f.v)
      [] f.form = "8xy0" -> LD_8xy0(c, f.x, f.y)
      [] f.form = "8xy1" -> OR_8xy1(c, f.x, f.y)
      [] f.form = "8xy2" -> AND_8xy2(c, f.x, f.y)
      [] f.form = "8xy3" -> XOR_8xy3(c, f.x, f.y)
      [] f.form = "8xy4" -> ADD_8xy4(c, f.x, f.y)
      [] f.form = "8xy5" -> SUB_8xy5(c, f.x, f.y)
      [] f.form = "8xy6" -> SHR_8xy6(c, f.x)
      [] f.form = "8xy7" -> SUBN_8xy7(c, f.x, f.y)
      [] f.form = "8xyE" -> SHL_8xyE(c, f.x)
      [] f.form = "9xy0" -> SNE_9xy0(c, f.x, f.y)
      [] f.form = "Annn" -> LD_Annn(c, f.v)
      [] f.form = "Bnnn" -> JP_Bnnn(c, f.v)
      [] f.form = "Cxkk" -> RND_Cxkk(c, f.x, f.v, rnd)
      [] f.form = "Dxyn" -> DRW_Dxyn(c, f.x, f.y, f.v)
      [] f.form = "Ex9E" -> SKP_Ex9E(c, f.x)
      [] f.form = "ExA1" -> SKNP_ExA1(c, f.x)
      [] f.form = "Fx07" -> LD_Fx07(c, f.x)
      [] f.form = "Fx0A" -> LD_Fx0A(c, f.x)
      [] f.form = "Fx15" -> LD_Fx15(c, f.x)
      [] f.form = "Fx18" -> LD_Fx18(c, f.x)
      [] f.form = "Fx1E" -> ADD_Fx1E(c, f.x)
      [] f.form = "Fx29" -> LD_Fx29(c, f.x)
      [] f.form = "Fx33" -> LD_Fx33(c, f.x)
      [] f.form = "Fx55" -> LD_Fx55(c, f.x)
      [] OTHER -> LD_Fx65(c, f.x)

\* the sources handed to assemble
SourcePrograms ==
    {Asm(lines) : lines \in
        {<<Line2(<<"L", "D">>, RegTok(0), <<"0", "x", "0", "C">>),
           Line2(<<"L", "D">>, RegTok(1), <<"0", "x", "0", "A">>),
           Line2(<<"L", "D">>, RegTok(15), <<"0", "x", "0", "3">>),
           f.text,
           Line1(<<"J", "P">>, <<"0", "x", "2", "0", "8">>)>> : f \in InstructionForms}
        \cup
        \* lines with decimal numerals, and a jump to itself
        {<<l, SpinLine>> :
            l \in {<<"L", "D", " ", "V", "0", ",", " ", "1", "0">>,
                   <<"D", "R", "W", " ", "V", "1", ",", " ", "V", "2", ",", " ", "1", "2">>,
                   <<"J", "P", " ", "5", "1", "2">>,
                   <<"C", "A", "L", "L", " ", "5", "1", "2">>,
                   <<"L", "D", " ", "I", ",", " ", "5", "1", "2">>}}
        \cup
        \* lines that refer to a label defined nowhere, in first place and in second place
        UNION {{<<l, SpinLine>>, <<<<"C", "L", "S">>, l>>} :
               l \in {<<"J", "P", " ", "n", "o", "w", "h", "e", "r", "e">>,
                      <<"C", "A", "L", "L", " ", "n", "o", "w", "h", "e", "r", "e">>,
                      <<"L", "D", " ", "I", ",", " ", "n", "o", "w", "h", "e", "r", "e">>}}
        \cup
        \* the label `here:` behind a comment, an empty line, another label, instructions
        {<<<<";", " ", "c">>, <<"h", "e", "r", "e", ":">>, <<"C", "L", "S">>>>,
         <<<<>>, <<"h", "e", "r", "e", ":">>, <<"C", "L", "S">>>>,
         <<<<"a", ":">>, <<"h", "e", "r", "e", ":">>, <<"C", "L", "S">>>>,
         <<<<"C", "L", "S">>, <<>>, <<"h", "e", "r", "e", ":">>, <<"R", "E", "T">>>>,
         <<<<"C", "L", "S">>, <<"h", "e", "r", "e", ":">>, <<"R", "E", "T">>>>,
         <<<<"C", "L", "S">>, <<"R", "E", "T">>, <<"h", "e", "r", "e", ":">>>>}}

SpecSources == InitWith(SourcePrograms) /\ [][NextCpu]_vars

(***************************************************************************)
(* C23                                                                     *)
(***************************************************************************)
\* C23: for every instruction form without label operand and every operand value,
\* the line assembles, and the cycle that executes its opcode carries out the arm
\* of that form on the operands written in the line.
C23_RoundTripAll ==
    /\ [](\A f \in InstructionForms :
            (program.from_asm /\ Len(program.source) = 5 /\ program.source[4] = f.text)
                => ~program.load_panicked)
    /\ [][\A f \in {g \in InstructionForms :
                       /\ program.from_asm /\ Len(program.source) = 5
                       /\ program.source[4] = g.text
                       /\ CycleNext /\ chip8.pc = 518} :
            \E rnd \in RandomChoices(chip8) :
                chip8' = ClearStep(AudioStep(Intended([chip8 EXCEPT !.pc = 520], f, rnd)))]_vars

\* C23, amended: the same for every form and operand value but `SYS addr` with addr
\* 0x0E0 or 0x0EE, whose opcodes 00E0 and 00EE are those of CLS and RET.
C23_RoundTrip ==
    /\ [](\A f \in InstructionForms :
            (program.from_asm /\ Len(program.source) = 5 /\ program.source[4] = f.text)
                => ~program.load_panicked)
    /\ [][\A f \in {g \in InstructionForms :
                       /\ program.from_asm /\ Len(program.source) = 5
                       /\ program.source[4] = g.text
                       /\ ~(g.form = "0nnn" /\ g.v \in {224, 238})
                       /\ CycleNext /\ chip8.pc = 518} :
            \E rnd \in RandomChoices(chip8) :
                chip8' = ClearStep(AudioStep(Intended([chip8 EXCEPT !.pc = 520], f, rnd)))]_vars

\* `LD DT, V1` was assembled to F115 and executed behind the three loads
C23_Witness ==
    /\ program.from_asm /\ Len(program.source) = 5
    /\ program.source[4] = <<"L", "D", " ", "D", "T", ",", " ", "V", "1">>
    /\ OpcodeIn(518) = Op(15, 1, 1, 5)
    /\ chip8.pc = 520 /\ loop_i = 4
    /\ chip8.registers[0] = 12 /\ chip8.registers[1] = 10 /\ chip8.registers[15] = 3
    /\ chip8.timer_delay = 10 /\ chip8.timer_sound = 0

(***************************************************************************)
(* C25, C26, C27                                                           *)
(***************************************************************************)
\* C25: a decimal numeral is accepted as byte, as nibble and as address, and is
\* encoded as its value: `LD V0, 10` yields 600A, `DRW V1, V2, 12` yields D12C,
\* `JP 512` yields 1200.
C25_DecimalImmediates ==
    \A d \in {Form(<<"L", "D", " ", "V", "0", ",", " ", "1", "0">>, Op(6, 0, 0, 10)),
              Form(<<"D", "R", "W", " ", "V", "1", ",", " ", "V", "2", ",", " ", "1", "2">>, Op(13, 1, 2, 12)),
              Form(<<"J", "P", " ", "5", "1", "2">>, Op(1, 2, 0, 0))} :
        (program.from_asm /\ program.source = <<d.text, SpinLine>>)
            => /\ ~program.load_panicked
               /\ Emitted(0) = d.opcode

\* C26: a line whose operand is a label defined nowhere is kept by the first pass
\* without opcode and without abort; the second pass aborts with the message
\* "Invalid asm line: " followed by that line, and no bytes are returned.
C26_UnknownLabelAborts ==
    \A k \in 1..2 :
        (program.from_asm /\ Len(program.source) = 2
           /\ EndsWith(program.source[k], <<"n", "o", "w", "h", "e", "r", "e">>)
           /\ ~EndsWith(program.source[3 - k], <<"n", "o", "w", "h", "e", "r", "e">>))
            => /\ ~FirstPass(program.source, <<>>, <<>>, PROGRAM_BASE).panicked
               /\ FirstPass(program.source, <<>>, <<>>, PROGRAM_BASE).asm_lines[k] =
                     AsmLine(program.source[k], None, PROGRAM_BASE + 2 * (k - 1))
               /\ AssembleSecond(FirstPass(program.source, <<>>, <<>>, PROGRAM_BASE)).panicked
               /\ AssembleSecond(FirstPass(program.source, <<>>, <<>>, PROGRAM_BASE)).message =
                     <<"I", "n", "v", "a", "l", "i", "d", " ", "a", "s", "m", " ", "l", "i", "n", "e", ":", " ">>
                     \o program.source[k]
               /\ program.load_panicked /\ chip8.panicked

\* `CLS` and `CALL nowhere` were handed to assemble: emulation never starts
C26_Witness ==
    /\ program.from_asm
    /\ program.source = <<<<"C", "L", "S">>, <<"C", "A", "L", "L", " ", "n", "o", "w", "h", "e", "r", "e">>>>
    /\ program.load_panicked /\ chip8.panicked /\ chip8.pc = PROGRAM_BASE
    /\ loop_i = LOOP_CYCLES /\ cycles_run = 0

\* C27: the first pass records for the label `here` the address 0x200 + 2 * (the
\* number of instruction lines in front of the line `here:`): empty lines, comment
\* lines and label lines in front of it do not count.
C27_LabelAddress ==
    \A k \in 1..Len(program.source) :
        (program.from_asm /\ program.source[k] = <<"h", "e", "r", "e", ":">>)
            => FirstPass(program.source, <<>>, <<>>, PROGRAM_BASE).labels[<<"h", "e", "r", "e">>] =
                  PROGRAM_BASE
                  + 2 * Cardinality({j \in 1..(k - 1) :
                                       /\ program.source[j] # <<>>
                                       /\ Head(program.source[j]) # ";"
                                       /\ ~EndsWith(program.source[j], <<":">>)})

(***************************************************************************)
(* C28                                                                     *)
(***************************************************************************)
\* C28: with sp calls outstanding, their return addresses are stack[1..sp] in the
\* order of the calls.  A CALL with fewer than 15 outstanding puts the address of
\* the instruction behind it on top and jumps; a RET with 1..15 outstanding sets
\* pc to the top entry, the return address of the most recent CALL not yet
\* returned from, and takes it off, so that sp is again what it was before that
\* CALL; no other cycle changes sp or the stack, and sp stays within 0..15.
C28_CallRetLifo ==
    [][/\ (CycleNext /\ NextOpcode \div 4096 = 2 /\ chip8.sp < 15)
            => /\ ~chip8'.panicked
               /\ chip8'.sp = chip8.sp + 1 /\ chip8'.sp \in 0..15
               /\ chip8'.stack = [chip8.stack EXCEPT ![chip8.sp + 1] = chip8.pc + 2]
               /\ chip8'.pc = NextOpcode % 4096
       /\ (CycleNext /\ NextOpcode = RetOpcode /\ chip8.sp \in 1..15)
            => /\ ~chip8'.panicked
               /\ chip8'.pc = chip8.stack[chip8.sp]
               /\ chip8'.sp = chip8.sp - 1 /\ chip8'.sp \in 0..15
               /\ chip8'.stack = chip8.stack
       /\ ~(CycleNext /\ (NextOpcode \div 4096 = 2 \/ NextOpcode = RetOpcode))
            => chip8'.sp = chip8.sp /\ chip8'.stack = chip8.stack]_vars

\* 15 nested calls have returned in the reverse order of the calls: the last
\* RET came back to 0x202, with nothing outstanding
C28_Witness ==
    /\ OpcodeIn(512) = CallTo(2) /\ OpcodeIn(568) = CallTo(30)
    /\ OpcodeIn(572) = RetOpcode
    /\ chip8.pc = 514 /\ chip8.sp = 0 /\ ~chip8.panicked
    /\ \A k \in 1..15 : chip8.stack[k] = PROGRAM_BASE + 4 * k - 2
    /\ loop_i = 6

(***************************************************************************)
(* C29                                                                     *)
(***************************************************************************)
\* C29: between two frames, audio_is_playing is true exactly when timer_sound is
\* above 0, also while a key is awaited.
C29_AudioAgreesWithTimer ==
    (loop_i = LOOP_CYCLES /\ ~chip8.panicked)
        => (chip8.audio_is_playing <=> chip8.timer_sound > 0)
====
